---- MODULE Spec2Model ----
(***************************************************************************)
(* Verification model of freecad-ai: the conversation store                *)
(* (core/conversation.py), the MCP client transport, client and manager    *)
(* (mcp/transport.py, mcp/client.py, mcp/manager.py) and the agent loop of *)
(* the chat widget (ui/chat_widget.py).                                    *)
(***************************************************************************)
EXTENDS Integers, Sequences, FiniteSets, TLC

(***************************************************************************)
(* Bounds of the model                                                     *)
(***************************************************************************)
MaxMsgs == 4            \* messages in a conversation (conversation store)
MaxContentLen == 1      \* characters of a message's content
MaxCallsPerMsg == 2     \* tool calls carried by one assistant message
MaxBudget == 2          \* largest max_chars tried
NumCallers == 2         \* threads calling send_request on one transport
MaxServers == 2         \* server configs given to connect_all
MaxPipe == 1            \* unread lines in the pipe when the server adds one
                        \* that answers no request
MaxCalls == 2           \* tool calls of one streamed turn
NumTools == 2           \* tools that can be registered in a ToolRegistry
MaxChunks == 3          \* data chunks of a streamed response
MaxIndex == 1           \* tool-call indices 0..MaxIndex in a streamed response
MaxWorkers == 5         \* workers one widget starts
MaxSends == 2           \* workers started by a message of the user, of MaxWorkers
MaxLines == 2           \* lines the MCP server reads
MaxId == 2              \* ids 1..MaxId of the messages sent to the MCP server
MaxClients == 2         \* clients of an MCPManager
MaxEvents == 6          \* data chunks of an Anthropic stream
MaxInvocations == 3     \* invocations of host tool handlers and execute_code
MaxVariations == 2      \* choices of a run of the agent loop that leave the
                        \* plain turn (one tool call, no text, a result in
                        \* time that reports success)

VARIABLES
  messages,       \* Conversation.messages
  api_called,     \* get_messages_for_api has returned for the current messages
  api_args,       \* the arguments of that call
  api_result,     \* the list it returned
  \* StdioClientTransport
  next_id,        \* _next_id
  pending,        \* _pending: id -> entry (the caller owning the event, response)
  event,          \* the threading.Event of each caller's request
  running,        \* _running
  process,        \* _process: "none", "alive" or "exited"
  wire_in,        \* the messages written to the subprocess's stdin
  wire_out,       \* the lines of the subprocess's stdout not yet read
  answered,       \* the ids of the requests the server has answered
  rpc,            \* the reader thread's position in _read_loop
  rline,          \* the message the reader thread decoded last
  tpc,            \* each caller's position in send_request
  treq,           \* each caller's req_id
  tmethod,        \* the method of each caller's request
  outcomes,       \* id -> how the send_request call of that id ended
  spc,            \* the position of stop()
  unblocked,      \* the ids of the waiting requests stop() resolved
  \* MCPManager.connect_all and the MCPClient it is connecting
  cfg,            \* the server config the loop of connect_all is at
  cfg_idx,        \* the number of configs the loop has taken
  cpc,            \* the position in connect_all and connect
  cl_connected,   \* MCPClient._connected
  cl_tools,       \* MCPClient._tools
  clients,        \* MCPManager._clients: name -> the attempt that made the client
  attempts,       \* the connection attempts that ended, in order
  \* ChatDockWidget and its _LLMWorker
  wpc,            \* the worker thread's position in run and _tool_loop
  w_api_style,      \* _LLMWorker.api_style
  w_messages,     \* the local list "messages" of _tool_loop
  turn,           \* the loop variable "turn" of _tool_loop
  w_tool_calls,     \* the list "tool_calls" of the current turn
  turn_text,      \* "turn_text" of the current turn
  tc_idx,         \* the index of the tool call the for loop executes
  tool_result_messages, \* the list of that name of the current turn
  _full_response, \* _LLMWorker._full_response
  _tool_results,  \* _LLMWorker._tool_results
  _pending_result, \* _LLMWorker._pending_result
  main_queue,     \* the signals queued for the main thread, oldest first
  loading,        \* the widget is in its loading state (_set_loading)
  stream_log,     \* what each streaming turn so far delivered
  dispatched,     \* the tool calls handed to the main thread, in order
  responses,      \* the texts emitted with response_finished, in order
  variations,     \* the choices so far that left the plain turn
  \* ToolRegistry
  _tools,         \* ToolRegistry._tools: name -> what the handler does
  exec_args,      \* the arguments of the last call of execute
  exec_outcome,   \* how that call ended
  \* LLMClient
  chunks_seen,    \* the data chunks _http_stream has yielded in this stream
  pending_tools,  \* _stream_openai_tools: index -> id, name, arguments_json
  yielded,        \* the events the generator has yielded
  stream_pc,      \* "streaming", or "returned" after the generator ended
  ended_by,       \* the terminal signal that ended the stream
  send_args,      \* the last call of send or send_with_tools
  send_outcome,   \* what it returned or raised
  \* the main thread of the widget
  executing, \* the tool calls whose execution has begun and not ended
  \* ChatDockWidget and the workers it starts, one after another
  threads, \* the state of each worker thread started, in the order of the starts
  _worker, \* ChatDockWidget._worker: the number of the latest worker, 0 for None
  signals, \* the terminal signals emitted and not yet handled by their slot
  input_text, \* the text of input_edit
  read_only, \* whether input_edit is read-only
  _retry_count, \* ChatDockWidget._retry_count
  last_send, \* how the latest call of _send_message returned
  resubmitted, \* the resubmissions after failed code since the user's last message
  \* MCPServer and its StdioServerTransport
  srv_pc, \* the position of StdioServerTransport.run
  srv_count, \* the number of lines run has read
  srv_line, \* the line run read last
  srv_msg, \* the message decoded from it, None without one
  srv_out, \* the lines written since that line was read
  srv_raised, \* the exception that left run
  \* MCPManager and the registry it registers into
  _clients, \* MCPManager._clients, in the order of insertion: the name, whether the client is connected, the names of its tools
  mpc, \* whether register_tools_into has been called
  reg_log, \* the definitions register_tools_into gave to register, in order
  mcp_query, \* the latest call of is_mcp_tool and its answer
  \* the undo transactions of the host document
  inv, \* the invocation of _with_undo or execute_code under way or ended last
  upc, \* its position
  txn, \* the number of open transactions of the document
  txn_log, \* the transaction calls of the invocation, in order
  raised_in, \* the step of the invocation that raised
  inv_count, \* the number of invocations begun
  UndoCount, \* the number of committed transactions of the document
  \* the Anthropic stream with tools
  dialect, \* the dialect of the stream with tools
  a_chunks, \* the data chunks the Anthropic stream has delivered
  current_tool_id, \* the id of the tool call being streamed
  current_tool_name, \* its name
  current_tool_json, \* its arguments collected so far
  open_block \* the content block the provider has open

convVars == <<messages, api_called, api_args, api_result>>

transportVars == <<next_id, pending, event, running, process, wire_in, wire_out,
                   answered, rpc, rline, tpc, treq, tmethod, outcomes,
                   spc, unblocked>>

mcpVars == <<cfg, cfg_idx, cpc, cl_connected, cl_tools, clients, attempts>>

agentVars == <<wpc, w_api_style, w_messages, turn, w_tool_calls, turn_text,
               tc_idx, tool_result_messages, _full_response, _tool_results,
               _pending_result, main_queue, loading, stream_log, dispatched,
               responses, variations>>

registryVars == <<_tools, exec_args, exec_outcome>>

llmVars == <<chunks_seen, pending_tools, yielded, stream_pc, ended_by,
            send_args, send_outcome>>

hostVars == <<executing>>

widgetVars == <<threads, _worker, signals, input_text, read_only, _retry_count, last_send,
                resubmitted>>

serverVars == <<srv_pc, srv_count, srv_line, srv_msg, srv_out, srv_raised>>

managerVars == <<_clients, mpc, reg_log, mcp_query>>

undoVars == <<inv, upc, txn, txn_log, raised_in, inv_count, UndoCount>>

anthVars == <<dialect, a_chunks, current_tool_id, current_tool_name, current_tool_json, open_block>>

vars == <<messages, api_called, api_args, api_result,
          next_id, pending, event, running, process, wire_in, wire_out,
          answered, rpc, rline, tpc, treq, tmethod, outcomes, spc,
          unblocked,
          cfg, cfg_idx, cpc, cl_connected, cl_tools, clients, attempts,
          wpc, w_api_style, w_messages, turn, w_tool_calls, turn_text,
          tc_idx, tool_result_messages, _full_response, _tool_results,
          _pending_result, main_queue, loading, stream_log, dispatched,
          responses, variations,
          _tools, exec_args, exec_outcome,
          chunks_seen, pending_tools, yielded, stream_pc, ended_by,
          send_args, send_outcome,
          executing,
          threads, _worker, signals, input_text, read_only, _retry_count, last_send,
          resubmitted,
          srv_pc, srv_count, srv_line, srv_msg, srv_out, srv_raised,
          _clients, mpc, reg_log, mcp_query,
          inv, upc, txn, txn_log, raised_in, inv_count, UndoCount,
          dialect, a_chunks, current_tool_id, current_tool_name, current_tool_json, open_block>>

(***************************************************************************)
(* Conversation (core/conversation.py)                                     *)
(***************************************************************************)
NoId == 0
NoArgs == [max_chars |-> 0, api_style |-> "none"]
ApiStyles == {"openai", "anthropic"}

\* a string of n characters
Str(n) == [k \in 1..n |-> "x"]

\* the prefix add_system_message puts before the content
SystemPrefix == <<"[", "S", "y", "s", "t", "e", "m", "]", " ">>

\* a tool call as the worker stores it: {"id", "name", "arguments"}
ToolCall(id) == [id |-> id, name |-> "tool", arguments |-> "args"]

ToolCalls(n) == [k \in 1..n |-> ToolCall(k)]

UserMessage(content) ==
  [role |-> "user", content |-> content, tool_calls |-> <<>>, tool_call_id |-> NoId]

AssistantMessage(content, tool_calls) ==
  [role |-> "assistant", content |-> content, tool_calls |-> tool_calls,
   tool_call_id |-> NoId]

ToolResultMessage(tool_call_id, content) ==
  [role |-> "tool_result", content |-> content, tool_calls |-> <<>>,
   tool_call_id |-> tool_call_id]

SystemMessage(content) == UserMessage(SystemPrefix \o content)

RECURSIVE SumChars(_)
SumChars(ms) ==
  IF ms = <<>> THEN 0 ELSE Len(Head(ms).content) + SumChars(Tail(ms))

\* the inner while of the walk: the index left of the run of tool_result
\* messages that ends at j (0 when the run reaches the start)
RECURSIVE SkipToolResults(_, _)
SkipToolResults(msgs, j) ==
  IF j >= 1 /\ msgs[j].role = "tool_result"
  THEN SkipToolResults(msgs, j - 1)
  ELSE j

\* the index left of the tool group whose last message is msgs[i]
GroupLimit(msgs, i) ==
  LET j == SkipToolResults(msgs, i - 1)
  IN IF j >= 1 /\ msgs[j].role = "assistant" THEN j - 1 ELSE j

\* the tool group whose last message is msgs[i]: the run of tool results
\* and the assistant message before it
ToolGroup(msgs, i) == SubSeq(msgs, GroupLimit(msgs, i) + 1, i)

\* the test without "and result": the newest message is cut as well
OverBudget_NoKeepNewest(total_chars, chars, max_chars, result) ==
  total_chars + chars > max_chars

\* a test of the total before the message is counted
OverBudget_BeforeAdding(total_chars, chars, max_chars, result) ==
  total_chars > max_chars /\ result # <<>>

\* "if total_chars + ... > max_chars and result: break"
OverBudget(total_chars, chars, max_chars, result) ==
  total_chars + chars > max_chars /\ result # <<>>

\* the backward walk, from index i with result and total_chars so far
RECURSIVE Walk(_, _, _, _, _)
Walk(msgs, i, result, total_chars, max_chars) ==
  IF i < 1 THEN result
  ELSE IF msgs[i].role = "tool_result"
       THEN LET tool_group == ToolGroup(msgs, i)
                group_chars == SumChars(tool_group)
            IN IF OverBudget(total_chars, group_chars, max_chars, result)
               THEN result
               ELSE Walk(msgs, GroupLimit(msgs, i), tool_group \o result,
                         total_chars + group_chars, max_chars)
       ELSE LET msg_chars == Len(msgs[i].content)
            IN IF OverBudget(total_chars, msg_chars, max_chars, result)
               THEN result
               ELSE Walk(msgs, i - 1, <<msgs[i]>> \o result,
                         total_chars + msg_chars, max_chars)

\* an "if" in place of the "while": one leading message is dropped
DropLeadingNonUser_Once(result) ==
  IF result # <<>> /\ Head(result).role # "user" THEN Tail(result) ELSE result

\* the loop left out
DropLeadingNonUser_Never(result) == result

\* "while result and result[0]["role"] not in ("user",): result.pop(0)"
RECURSIVE DropLeadingNonUser(_)
DropLeadingNonUser(result) ==
  IF result # <<>> /\ Head(result).role # "user"
  THEN DropLeadingNonUser(Tail(result))
  ELSE result

\* the content an OpenAI assistant message with tool calls gets for ""
NoneContent == <<"None">>

OpenAIToolCall(tc) ==
  [id |-> tc.id, type |-> "function",
   function |-> [name |-> tc.name, arguments |-> <<"json", tc.arguments>>]]

ToOpenAI(msg) ==
  IF msg.role = "tool_result"
  THEN [role |-> "tool", tool_call_id |-> msg.tool_call_id, content |-> msg.content]
  ELSE IF msg.role = "assistant" /\ msg.tool_calls # <<>>
       THEN [role |-> "assistant",
             content |-> IF msg.content # <<>> THEN msg.content ELSE NoneContent,
             tool_calls |-> [k \in 1..Len(msg.tool_calls) |->
                                OpenAIToolCall(msg.tool_calls[k])]]
       ELSE [role |-> msg.role, content |-> msg.content]

AnthropicToolUse(tc) ==
  [type |-> "tool_use", id |-> tc.id, name |-> tc.name, input |-> tc.arguments]

ToAnthropic(msg) ==
  IF msg.role = "tool_result"
  THEN [role |-> "user",
        content |-> <<[type |-> "tool_result", tool_use_id |-> msg.tool_call_id,
                       content |-> msg.content]>>]
  ELSE IF msg.role = "assistant" /\ msg.tool_calls # <<>>
       THEN [role |-> "assistant",
             content |->
               (IF msg.content # <<>>
                THEN <<[type |-> "text", text |-> msg.content]>> ELSE <<>>)
               \o [k \in 1..Len(msg.tool_calls) |->
                     AnthropicToolUse(msg.tool_calls[k])]]
       ELSE [role |-> msg.role, content |-> msg.content]

_to_openai_format(ms) == [k \in 1..Len(ms) |-> ToOpenAI(ms[k])]

_to_anthropic_format(ms) == [k \in 1..Len(ms) |-> ToAnthropic(ms[k])]

ToApiFormat(ms, api_style) ==
  IF api_style = "anthropic" THEN _to_anthropic_format(ms)
  ELSE _to_openai_format(ms)

get_messages_for_api(msgs, max_chars, api_style) ==
  IF msgs = <<>> THEN <<>>
  ELSE ToApiFormat(
         DropLeadingNonUser(Walk(msgs, Len(msgs), <<>>, 0, max_chars)),
         api_style)

\* appending a message invalidates the last answer of get_messages_for_api
Append1(msg) ==
  /\ Len(messages) < MaxMsgs
  /\ messages' = Append(messages, msg)
  /\ api_called' = FALSE
  /\ api_args' = NoArgs
  /\ api_result' = <<>>

\* the content lengths tried: empty and full
ContentLens == {0, MaxContentLen}

\* the id the next tool result answers: the results after an assistant
\* message answer its calls in order
NextToolCallId(msgs) ==
  IF msgs # <<>> /\ msgs[Len(msgs)].role = "tool_result"
  THEN msgs[Len(msgs)].tool_call_id + 1
  ELSE 1

add_user_message == \E n \in ContentLens : Append1(UserMessage(Str(n)))

\* the numbers of tool calls tried: none, one and the most
CallCounts == {0, 1, MaxCallsPerMsg}

add_assistant_message ==
  \E n \in ContentLens, c \in CallCounts :
    Append1(AssistantMessage(Str(n), ToolCalls(c)))

add_tool_result ==
  \E n \in ContentLens :
    Append1(ToolResultMessage(NextToolCallId(messages), Str(n)))

add_system_message == \E n \in ContentLens : Append1(SystemMessage(Str(n)))

GetMessagesForApi ==
  /\ ~api_called
  /\ \E max_chars \in 0..MaxBudget, api_style \in ApiStyles :
       /\ api_result' = get_messages_for_api(messages, max_chars, api_style)
       /\ api_args' = [max_chars |-> max_chars, api_style |-> api_style]
  /\ api_called' = TRUE
  /\ UNCHANGED messages

ConvInit ==
  /\ messages = <<>>
  /\ api_called = FALSE
  /\ api_args = NoArgs
  /\ api_result = <<>>

(***************************************************************************)
(* JSON-RPC messages (mcp/protocol.py)                                     *)
(***************************************************************************)
INTERNAL_ERROR == -32603

PARSE_ERROR == -32700

METHOD_NOT_FOUND == -32601

None == [kind |-> "none"]

\* make_request(method, params, id)
make_request(method, params, id) ==
  [kind |-> "request", method |-> method, params |-> params, id |-> id]

\* make_notification(method): a message without id
make_notification(method) ==
  [kind |-> "notification", method |-> method, params |-> None, id |-> NoId]

\* make_response(id, result)
make_response(id, result) == [kind |-> "result", id |-> id, result |-> result]

\* make_error(id, code, message)
make_error(id, code, message) ==
  [kind |-> "error", id |-> id, error |-> [code |-> code, message |-> message]]

\* "error" in resp
HasError(resp) == resp.kind = "error"

\* the response stop() stores in every pending entry
TransportStopped == make_error(NoId, INTERNAL_ERROR, "Transport stopped")

(***************************************************************************)
(* StdioClientTransport (mcp/transport.py)                                 *)
(***************************************************************************)
Callers == 1..NumCallers

\* how a call of send_request ends: what it returns or raises
Returned(resp) == [how |-> "return", value |-> resp]
Raised(exc) == [how |-> "raise", value |-> [kind |-> exc]]

\* a call that raises the exception object
Raised2(exc) == [how |-> "raise", value |-> exc]

\* the state of a transport object after __init__
TransportIdle ==
  /\ next_id = 1
  /\ pending = <<>>
  /\ event = [c \in Callers |-> FALSE]
  /\ running = FALSE
  /\ process = "none"
  /\ wire_in = <<>>
  /\ wire_out = <<>>
  /\ answered = {}
  /\ rpc = "ended"
  /\ rline = None
  /\ tpc = [c \in Callers |-> "idle"]
  /\ treq = [c \in Callers |-> NoId]
  /\ tmethod = [c \in Callers |-> "none"]
  /\ outcomes = <<>>
  /\ spc = "idle"
  /\ unblocked = {}

\* the state after start(): the subprocess runs and the reader thread reads
TransportStarted ==
  /\ next_id = 1
  /\ pending = <<>>
  /\ event = [c \in Callers |-> FALSE]
  /\ running = TRUE
  /\ process = "alive"
  /\ wire_in = <<>>
  /\ wire_out = <<>>
  /\ answered = {}
  /\ rpc = "loop"
  /\ rline = None
  /\ tpc = [c \in Callers |-> "idle"]
  /\ treq = [c \in Callers |-> NoId]
  /\ tmethod = [c \in Callers |-> "none"]
  /\ outcomes = <<>>
  /\ spc = "idle"
  /\ unblocked = {}

\* a pop that leaves the key in the map
Without_Keep(f, k) == f

\* a function without the key k
Without(f, k) == [x \in DOMAIN f \ {k} |-> f[x]]

\* the call of caller c ends: it returns or raises
Finish(c, outcome, to) ==
  /\ outcomes' = outcomes @@ (treq[c] :> [by |-> c, how |-> outcome.how,
                                            value |-> outcome.value])
  /\ tpc' = [tpc EXCEPT ![c] = to]

\* send_request, lines 65-71, for a caller that is in no call: under the
\* lock the id is taken and _next_id advanced, then, under the lock again,
\* the entry with a new event is put into _pending.  The two sections are
\* one step: the first touches nothing but _next_id.
BeginRequest(c, method) ==
  /\ tpc[c] \in {"idle", "returned", "raised"}
  /\ treq' = [treq EXCEPT ![c] = next_id]
  /\ tmethod' = [tmethod EXCEPT ![c] = method]
  /\ next_id' = next_id + 1
  /\ event' = [event EXCEPT ![c] = FALSE]
  /\ pending' = (next_id :> [owner |-> c, response |-> None]) @@ pending
  /\ tpc' = [tpc EXCEPT ![c] = "write"]

\* _write: "if self._process and self._process.stdin": the message reaches
\* the pipe when there is a subprocess
_write(msg) ==
  wire_in' = IF process # "none" THEN Append(wire_in, msg) ELSE wire_in

\* send_request, lines 73-74: the request is written
SendWrite(c) ==
  /\ tpc[c] = "write"
  /\ process # "exited"
  /\ _write(make_request(tmethod[c], c, treq[c]))
  /\ tpc' = [tpc EXCEPT ![c] = "wait"]
  /\ UNCHANGED <<next_id, pending, event, running, process, wire_out, answered, rpc, rline, treq, tmethod, outcomes, spc, unblocked>>

\* send_request, line 74: writing into the pipe of a subprocess that has
\* ended raises BrokenPipeError; the entry stays in _pending
SendWriteFails(c) ==
  /\ tpc[c] = "write"
  /\ process = "exited"
  /\ Finish(c, Raised("BrokenPipeError"), "raised")
  /\ UNCHANGED <<next_id, pending, event, running, process, wire_in, wire_out,
                 answered, rpc, rline, treq, tmethod, spc, unblocked>>

\* send_request, lines 76-79: event.wait(timeout) ends without the event
SendTimeout(c) ==
  /\ tpc[c] = "wait"
  /\ ~event[c]
  /\ tpc' = [tpc EXCEPT ![c] = "timeout_pop"]
  /\ UNCHANGED <<next_id, pending, event, running, process, wire_in, wire_out,
                 answered, rpc, rline, treq, tmethod, outcomes, spc, unblocked>>

\* "self._pending.pop(req_id, None); raise TimeoutError"
SendTimeoutPop(c) ==
  /\ tpc[c] = "timeout_pop"
  /\ pending' = Without(pending, treq[c])
  /\ Finish(c, Raised("TimeoutError"), "raised")
  /\ UNCHANGED <<next_id, event, running, process, wire_in, wire_out, answered, rpc, rline, treq, tmethod, spc, unblocked>>

\* "entry = self._pending.pop(req_id)": a KeyError without the entry
PopOutcome(p, req_id) ==
  IF req_id \in DOMAIN p THEN Returned(p[req_id].response) ELSE Raised("KeyError")

\* send_request, lines 76 and 81-83: event.wait returns with the event set
\* and the entry is popped under the lock
SendPop(c) ==
  /\ tpc[c] = "wait"
  /\ event[c]
  /\ pending' = Without(pending, treq[c])
  /\ LET o == PopOutcome(pending, treq[c])
     IN Finish(c, o, IF o.how = "return" THEN "returned" ELSE "raised")
  /\ UNCHANGED <<next_id, event, running, process, wire_in, wire_out, answered, rpc, rline, treq, tmethod, spc, unblocked>>

\* the ids of the requests written to the server that it has not answered
Unanswered ==
  {wire_in[k].id : k \in {i \in 1..Len(wire_in) : wire_in[i].kind = "request"}}
    \ answered

\* the request of id i as the server read it
RequestOf(i) ==
  wire_in[CHOOSE k \in 1..Len(wire_in) :
            wire_in[k].kind = "request" /\ wire_in[k].id = i]

\* the tool lists a server may answer tools/list with; the last one holds
\* an entry without "name"
ToolLists ==
  {<<>>,
   <<[name |-> "read"]>>,
   <<[name |-> "read"], [name |-> "write"]>>,
   <<[description |-> "nameless"]>>}

\* the results a server may compute for a request
ResultsFor(req) ==
  IF req.method = "tools/list"
  THEN {[tools |-> t] : t \in ToolLists}
  ELSE {[method |-> req.method, params |-> req.params]}

\* the answers a server may give to a request: a result, or an error
\* response (a ping is always answered with a result)
AnswersTo(req) ==
  {make_response(req.id, r) : r \in ResultsFor(req)}
    \cup IF req.method = "ping" THEN {}
         ELSE {make_error(req.id, INTERNAL_ERROR, "failed")}

\* the server answers one of the requests it has read, in any order
ServerRespond ==
  /\ process = "alive"
  /\ \E i \in Unanswered : \E resp \in AnswersTo(RequestOf(i)) :
       /\ wire_out' = Append(wire_out, resp)
       /\ answered' = answered \cup {i}
  /\ UNCHANGED <<next_id, pending, event, running, process, wire_in,
                 rpc, rline, tpc, treq, tmethod, outcomes, spc, unblocked>>

\* lines of the server that answer nothing: a notification and a line that
\* is no JSON
NoiseLines ==
  {make_notification("notifications/message"),
   [kind |-> "garbage", id |-> NoId]}

ServerNoise ==
  /\ process = "alive"
  /\ Len(wire_out) < MaxPipe
  /\ \E line \in NoiseLines : wire_out' = Append(wire_out, line)
  /\ UNCHANGED <<next_id, pending, event, running, process, wire_in, answered,
                 rpc, rline, tpc, treq, tmethod, outcomes, spc, unblocked>>

\* the subprocess ends by itself
ServerExit ==
  /\ process = "alive"
  /\ process' = "exited"
  /\ UNCHANGED <<next_id, pending, event, running, wire_in, wire_out, answered, rpc, rline, tpc, treq, tmethod, outcomes, spc, unblocked>>

\* _read_loop, lines 99-111: a line is read and decoded; a line that is no
\* JSON is skipped
ReaderRead ==
  /\ rpc = "loop"
  /\ running /\ process # "none"
  /\ wire_out # <<>>
  /\ wire_out' = Tail(wire_out)
  /\ IF Head(wire_out).kind = "garbage"
     THEN UNCHANGED <<rpc, rline>>
     ELSE rpc' = "got_line" /\ rline' = Head(wire_out)
  /\ UNCHANGED <<next_id, pending, event, running, process, wire_in, answered, tpc, treq, tmethod, outcomes, spc, unblocked>>

\* _read_loop, lines 99-103 and 122: the loop ends when the transport was
\* stopped or the subprocess closed its output
ReaderEnd ==
  /\ rpc = "loop"
  /\ \/ ~running
     \/ process = "none"
     \/ process = "exited" /\ wire_out = <<>>
  /\ rpc' = "ended"
  /\ running' = FALSE
  /\ UNCHANGED <<next_id, pending, event, process, wire_in, wire_out, answered, rline, tpc, treq, tmethod, outcomes, spc, unblocked>>

\* the pending request a message of id msg_id is matched with:
\* "entry = self._pending.get(msg_id)"
MatchFirstPending(p, msg_id) ==
  IF DOMAIN p # {}
  THEN {CHOOSE i \in DOMAIN p : \A j \in DOMAIN p : i <= j}
  ELSE {}

MatchPending(p, msg_id) ==
  IF msg_id # NoId /\ msg_id \in DOMAIN p THEN {msg_id} ELSE {}

\* _read_loop, lines 113-120: under the lock the response is stored in the
\* entry of its id and the entry's event is set
ReaderMatch ==
  /\ rpc = "got_line"
  /\ LET hit == MatchPending(pending, rline.id)
     IN /\ pending' = [i \in DOMAIN pending |->
                         IF i \in hit
                         THEN [pending[i] EXCEPT !.response = rline]
                         ELSE pending[i]]
        /\ event' = [c \in Callers |->
                       event[c] \/ \E i \in hit : pending[i].owner = c]
  /\ rpc' = "loop"
  /\ rline' = None
  /\ UNCHANGED <<next_id, running, process, wire_in, wire_out, answered,
                 tpc, treq, tmethod, outcomes, spc, unblocked>>

\* stop(), lines 126-136: the subprocess is terminated and forgotten; what
\* it had written and was not read is lost
StopTerminate ==
  /\ spc = "idle"
  /\ running' = FALSE
  /\ process' = "none"
  /\ wire_out' = <<>>
  /\ spc' = "unblock"
  /\ UNCHANGED <<next_id, pending, event, wire_in, answered, rpc, rline,
                 tpc, treq, tmethod, outcomes, unblocked>>

\* stop(), lines 138-145: under the lock every entry gets the error
\* response and its event is set, then the map is cleared
StopUnblock ==
  /\ spc = "unblock"
  /\ event' = [c \in Callers |->
                 event[c] \/ \E i \in DOMAIN pending : pending[i].owner = c]
  /\ pending' = <<>>
  /\ unblocked' = {i \in DOMAIN pending :
                     /\ tpc[pending[i].owner] \in {"write", "wait"}
                     /\ ~event[pending[i].owner]}
  /\ spc' = "done"
  /\ UNCHANGED <<next_id, running, process, wire_in, wire_out, answered,
                 rpc, rline, tpc, treq, tmethod, outcomes>>

\* a thread calls send_request, once
CallerSend(c) ==
  /\ tpc[c] = "idle"
  /\ BeginRequest(c, "ping")
  /\ UNCHANGED <<running, process, wire_in, wire_out, answered,
                 rpc, rline, outcomes, spc, unblocked>>

(***************************************************************************)
(* MCPClient (mcp/client.py) and MCPManager (mcp/manager.py)               *)
(***************************************************************************)
\* the thread that runs connect_all is caller 1 of the transport
Connector == 1

ServerNames == {"", "a", "b"}

\* a server config: {"name", "command", "enabled"}; command tells whether
\* the config has the key "command", spawns whether the command can be
\* started
Configs ==
  [name : ServerNames, enabled : BOOLEAN, command : BOOLEAN, spawns : BOOLEAN]

NoConfig ==
  [name |-> "", enabled |-> FALSE, command |-> FALSE, spawns |-> FALSE]

\* before connect_all
McpIdle ==
  /\ cfg = NoConfig
  /\ cfg_idx = 0
  /\ cpc = "loop"
  /\ cl_connected = FALSE
  /\ cl_tools = <<>>
  /\ clients = <<>>
  /\ attempts = <<>>

\* a new StdioClientTransport: __init__, lines 19-27
NewTransport ==
  /\ next_id' = 1
  /\ pending' = <<>>
  /\ event' = [c \in Callers |-> FALSE]
  /\ running' = FALSE
  /\ process' = "none"
  /\ wire_in' = <<>>
  /\ wire_out' = <<>>
  /\ answered' = {}
  /\ rpc' = "ended"
  /\ rline' = None
  /\ tpc' = [c \in Callers |-> "idle"]
  /\ treq' = [c \in Callers |-> NoId]
  /\ tmethod' = [c \in Callers |-> "none"]
  /\ outcomes' = <<>>
  /\ spc' = "idle"
  /\ unblocked' = {}

\* the order of the steps of connect() after start(), a reordering of it,
\* and the step after step s
ConnectSteps == <<"initialize", "notify", "list_tools", "mark_connected">>

ConnectSteps_ListFirst == <<"initialize", "list_tools", "notify", "mark_connected">>

StepAfterIn(steps, s) ==
  LET k == CHOOSE i \in 1..Len(steps) : steps[i] = s
  IN IF k < Len(steps) THEN steps[k + 1] ELSE "keep"

StepAfter_ListFirst(s) == StepAfterIn(ConnectSteps_ListFirst, s)

StepAfter(s) == StepAfterIn(ConnectSteps, s)

\* is_connected: "self._connected and self._transport.is_alive"
is_connected == cl_connected /\ running /\ process = "alive"

\* the requests of a method written so far, and the notifications
RequestsOf(method) ==
  {k \in 1..Len(wire_in) :
     wire_in[k].kind = "request" /\ wire_in[k].method = method}

Notifications ==
  {k \in 1..Len(wire_in) : wire_in[k].kind = "notification"}

\* the ids of the calls of a method that have ended
CallsOf(method) ==
  {i \in DOMAIN outcomes : \E k \in RequestsOf(method) : wire_in[k].id = i}

\* the initialize request was answered with an error response
InitializeRefused ==
  \E i \in CallsOf("initialize") :
    outcomes[i].how = "return" /\ HasError(outcomes[i].value)

\* what connect_all remembers of an attempt that ended
Attempt(kept) ==
  [name |-> cfg.name, refused |-> InitializeRefused,
   connected |-> cl_connected, kept |-> kept]

\* connect_all, line 26: the loop is over
ConnectAllDone ==
  /\ cpc = "loop"
  /\ cfg_idx >= 1
  /\ cpc' = "done"
  /\ UNCHANGED <<cfg, cfg_idx, cl_connected, cl_tools, clients, attempts>>
  /\ UNCHANGED transportVars

\* connect_all, lines 26-32: the next config is not enabled or has no name
ConnectAllSkip ==
  /\ cpc = "loop"
  /\ cfg_idx < MaxServers
  /\ \E c \in Configs :
       /\ ~c.enabled \/ c.name = ""
       /\ cfg' = c
  /\ cfg_idx' = cfg_idx + 1
  /\ UNCHANGED <<cpc, cl_connected, cl_tools, clients, attempts>>
  /\ UNCHANGED transportVars

\* connect_all, line 34: "cfg["command"]" is evaluated before the try; for
\* an enabled, named config without the key the KeyError leaves connect_all
ConnectAllRaises ==
  /\ cpc = "loop"
  /\ cfg_idx < MaxServers
  /\ \E c \in Configs :
       /\ c.enabled /\ c.name # ""
       /\ ~c.command
       /\ cfg' = c
  /\ cfg_idx' = cfg_idx + 1
  /\ cpc' = "raised"
  /\ UNCHANGED <<cl_connected, cl_tools, clients, attempts>>
  /\ UNCHANGED transportVars

\* connect_all, lines 26-38: the next config is enabled and named; a client
\* with a new transport is made (MCPClient.__init__, lines 36-40)
ClientCreate ==
  /\ cpc = "loop"
  /\ cfg_idx < MaxServers
  /\ \E c \in Configs :
       /\ c.enabled /\ c.name # ""
       /\ c.command
       /\ cfg' = c
  /\ cfg_idx' = cfg_idx + 1
  /\ cl_connected' = FALSE
  /\ cl_tools' = <<>>
  /\ NewTransport
  /\ cpc' = "start"
  /\ UNCHANGED <<clients, attempts>>

\* connect, line 44, and start(), lines 51-60: the subprocess is launched
\* and the reader thread started
TransportStart ==
  /\ cpc = "start"
  /\ cfg.spawns
  /\ process' = "alive"
  /\ running' = TRUE
  /\ rpc' = "loop"
  /\ cpc' = "initialize"
  /\ UNCHANGED <<next_id, pending, event, wire_in, wire_out, answered, rline,
                 tpc, treq, tmethod, outcomes, spc, unblocked>>
  /\ UNCHANGED <<cfg, cfg_idx, cl_connected, cl_tools, clients, attempts>>

\* start(), line 51: Popen raises for a command that cannot be started
TransportStartFails ==
  /\ cpc = "start"
  /\ ~cfg.spawns
  /\ cpc' = "failed"
  /\ UNCHANGED <<cfg, cfg_idx, cl_connected, cl_tools, clients, attempts>>
  /\ UNCHANGED transportVars

\* connect, lines 47-51: send_request("initialize", ...) begins
ConnectInitialize ==
  /\ cpc = "initialize"
  /\ BeginRequest(Connector, "initialize")
  /\ cpc' = "await_initialize"
  /\ UNCHANGED <<running, process, wire_in, wire_out, answered, rpc, rline,
                 outcomes, spc, unblocked>>
  /\ UNCHANGED <<cfg, cfg_idx, cl_connected, cl_tools, clients, attempts>>

\* connect, line 53: "if "error" in resp: raise RuntimeError"
InitializeFailed_Never(resp) == FALSE

InitializeFailed(resp) == HasError(resp)

\* connect, lines 47-56: send_request has ended; an exception of it or an
\* error response ends connect with an exception
ConnectInitialized ==
  /\ cpc = "await_initialize"
  /\ tpc[Connector] \in {"returned", "raised"}
  /\ LET o == outcomes[treq[Connector]]
     IN cpc' = IF o.how = "raise" \/ InitializeFailed(o.value)
               THEN "failed"
               ELSE StepAfter("initialize")
  /\ UNCHANGED <<cfg, cfg_idx, cl_connected, cl_tools, clients, attempts>>
  /\ UNCHANGED transportVars

\* connect, line 59: send_notification("notifications/initialized")
ConnectNotify ==
  /\ cpc = "notify"
  /\ process # "exited"
  /\ _write(make_notification("notifications/initialized"))
  /\ cpc' = StepAfter("notify")
  /\ UNCHANGED <<next_id, pending, event, running, process, wire_out,
                 answered, rpc, rline, tpc, treq, tmethod, outcomes, spc,
                 unblocked>>
  /\ UNCHANGED <<cfg, cfg_idx, cl_connected, cl_tools, clients, attempts>>

\* send_notification, line 88: the write into the pipe of a subprocess that
\* has ended raises BrokenPipeError
ConnectNotifyFails ==
  /\ cpc = "notify"
  /\ process = "exited"
  /\ cpc' = "failed"
  /\ UNCHANGED <<cfg, cfg_idx, cl_connected, cl_tools, clients, attempts>>
  /\ UNCHANGED transportVars

\* _refresh_tools, line 71: send_request("tools/list") begins
ConnectListTools ==
  /\ cpc = "list_tools"
  /\ BeginRequest(Connector, "tools/list")
  /\ cpc' = "await_tools"
  /\ UNCHANGED <<running, process, wire_in, wire_out, answered, rpc, rline,
                 outcomes, spc, unblocked>>
  /\ UNCHANGED <<cfg, cfg_idx, cl_connected, cl_tools, clients, attempts>>

\* _refresh_tools, lines 77-85: t["name"] raises KeyError for an entry
\* without name
Malformed(raw_tools) ==
  \E k \in 1..Len(raw_tools) : "name" \notin DOMAIN raw_tools[k]

ToolNames(raw_tools) == [k \in 1..Len(raw_tools) |-> raw_tools[k].name]

\* _refresh_tools, lines 71-85: an exception of send_request or a nameless
\* entry ends connect with an exception; an error response leaves the tool
\* list empty and connect goes on
ConnectToolsListed ==
  /\ cpc = "await_tools"
  /\ tpc[Connector] \in {"returned", "raised"}
  /\ LET o == outcomes[treq[Connector]]
     IN IF o.how = "raise"
        THEN cpc' = "failed" /\ UNCHANGED cl_tools
        ELSE IF HasError(o.value)
             THEN cpc' = StepAfter("list_tools") /\ cl_tools' = <<>>
             ELSE IF Malformed(o.value.result.tools)
                  THEN cpc' = "failed" /\ UNCHANGED cl_tools
                  ELSE /\ cpc' = StepAfter("list_tools")
                       /\ cl_tools' = ToolNames(o.value.result.tools)
  /\ UNCHANGED <<cfg, cfg_idx, cl_connected, clients, attempts>>
  /\ UNCHANGED transportVars

\* connect, line 63: "self._connected = True"
ConnectMarkConnected ==
  /\ cpc = "mark_connected"
  /\ cl_connected' = TRUE
  /\ cpc' = StepAfter("mark_connected")
  /\ UNCHANGED <<cfg, cfg_idx, cl_tools, clients, attempts>>
  /\ UNCHANGED transportVars

\* connect_all, line 40: "self._clients[name] = client"
ManagerKeep ==
  /\ cpc = "keep"
  /\ attempts' = Append(attempts, Attempt(TRUE))
  /\ clients' = [n \in DOMAIN clients \cup {cfg.name} |->
                   IF n = cfg.name THEN Len(attempts) + 1 ELSE clients[n]]
  /\ cpc' = "loop"
  /\ UNCHANGED <<cfg, cfg_idx, cl_connected, cl_tools>>
  /\ UNCHANGED transportVars

\* connect_all, lines 41-42: the exception is logged and the loop goes on
ManagerCatch ==
  /\ cpc = "failed"
  /\ attempts' = Append(attempts, Attempt(FALSE))
  /\ cpc' = "loop"
  /\ UNCHANGED <<cfg, cfg_idx, cl_connected, cl_tools, clients>>
  /\ UNCHANGED transportVars

(***************************************************************************)
(* The agent loop: _LLMWorker and ChatDockWidget (ui/chat_widget.py)       *)
(***************************************************************************)
\* "self._max_tool_turns = 10"
MaxToolTurns == 10

\* the default of max_chars in get_messages_for_api
DefaultMaxChars == 100000

\* the notice appended when the loop runs out of turns
LimitNotice == <<"\n", "\n", "[Reached maximum tool call iterations]">>

\* the error of a tool call the main thread did not answer in time
TimedOutError == <<"Tool execution timed out (main thread did not respond)">>

\* the tool call the model emits with the id: ToolCall(id, name, arguments)
AgentToolCall(id) == [id |-> id, name |-> "tool", arguments |-> ToString(id)]

\* LLMStreamEvent
TextDelta(text) == [type |-> "text_delta", text |-> text, tool_call |-> None]

ToolCallStart(tc) == [type |-> "tool_call_start", text |-> <<>>, tool_call |-> tc]

ToolCallEnd(tc) == [type |-> "tool_call_end", text |-> <<>>, tool_call |-> tc]

Done == [type |-> "done", text |-> <<>>, tool_call |-> None]

\* the orders in which the tool_call_end events of n calls may arrive
Orders(n) == {o \in [1..n -> 1..n] : \A a, b \in 1..n : a # b => o[a] # o[b]}

\* what stream_with_tools yields in a turn: text or none, the starts of
\* n tool calls with the ids after base, their ends in the order given,
\* and done
StreamEvents(base, n, with_text, order) ==
  (IF with_text THEN <<TextDelta(<<"t">>)>> ELSE <<>>)
    \o [k \in 1..n |-> ToolCallStart(AgentToolCall(base + k))]
    \o [k \in 1..n |-> ToolCallEnd(AgentToolCall(base + order[k]))]
    \o <<Done>>

\* what the rarer choices take of the budget of variations: a text in a
\* turn with tool calls, a stream that raises, a wait that times out
RareCost == MaxVariations

\* how far a stream leaves the plain turn of one call and no text
StreamCost(n, with_text) ==
  (IF with_text THEN RareCost ELSE 0) + (IF n > 1 THEN n - 1 ELSE 0)

\* "tool_calls.append(event.tool_call)"
Collect(list, tc) == Append(list, tc)

\* the for loop over the events of a stream, lines 106-120, from the
\* text and the tool calls collected so far
RECURSIVE ConsumeStream(_, _, _)
ConsumeStream(events, text, calls) ==
  IF events = <<>> THEN [text |-> text, tool_calls |-> calls]
  ELSE LET ev == Head(events)
       IN IF ev.type = "text_delta"
          THEN ConsumeStream(Tail(events), text \o ev.text, calls)
          ELSE IF ev.type = "tool_call_end"
               THEN IF ev.tool_call # None
                    THEN ConsumeStream(Tail(events), text,
                                       Collect(calls, ev.tool_call))
                    ELSE ConsumeStream(Tail(events), text, calls)
               ELSE IF ev.type = "done"
                    THEN [text |-> text, tool_calls |-> calls]
                    ELSE ConsumeStream(Tail(events), text, calls)

\* the assistant message _tool_loop appends to its local messages,
\* lines 136-164
WorkerAssistantMessage(style, text, calls) ==
  IF style = "anthropic"
  THEN [role |-> "assistant",
        content |->
          (IF text # <<>> THEN <<[type |-> "text", text |-> text]>> ELSE <<>>)
          \o [k \in 1..Len(calls) |-> AnthropicToolUse(calls[k])]]
  ELSE [role |-> "assistant",
        content |-> IF text # <<>> THEN text ELSE NoneContent,
        tool_calls |-> [k \in 1..Len(calls) |-> OpenAIToolCall(calls[k])]]

\* the tool result message of lines 177-193
WorkerToolResult(style, id, result_text) ==
  IF style = "anthropic"
  THEN [role |-> "user",
        content |-> <<[type |-> "tool_result", tool_use_id |-> id,
                       content |-> result_text]>>]
  ELSE [role |-> "tool", tool_call_id |-> id, content |-> result_text]

\* the id a tool result message of the worker carries
ResultId(style, m) ==
  IF style = "anthropic" THEN m.content[1].tool_use_id ELSE m.tool_call_id

\* lines 201-204: the content of a tool result message
ResultContent(style, m) ==
  IF style = "anthropic" THEN m.content[1].content ELSE m.content

\* a result text that is the output whatever the success
ResultText_OutputOnly(result) == result.output

\* lines 170-173: "result_text = output if success else f"Error: {error}""
ResultText(result) ==
  IF result.success THEN result.output ELSE <<"Error: ">> \o result.error

\* the entry appended to _tool_results, lines 198-205
TurnInfo(style, text, calls, results) ==
  [assistant_text |-> text,
   tool_calls |-> calls,
   results |-> [k \in 1..(IF Len(calls) < Len(results) THEN Len(calls)
                          ELSE Len(results)) |->
                  [tool_call_id |-> calls[k].id,
                   content |-> ResultContent(style, results[k])]]]

\* the signals the worker queues for the main thread
ToolExecRequested(tc) ==
  [sig |-> "tool_exec_requested", name |-> tc.name,
   payload |-> <<"json", tc.arguments>>]

ResponseFinished(text) ==
  [sig |-> "response_finished", name |-> "", payload |-> text]

\* an error that is emitted as a finished response
ErrorOccurred_AsResponse == ResponseFinished(<<>>)

\* "self.error_occurred.emit(str(e))"
ErrorOccurred == [sig |-> "error_occurred", name |-> "", payload |-> <<>>]

\* the results of ToolRegistry.execute as _execute_tool_call passes them on
ToolSucceeded(arguments_json) ==
  [success |-> TRUE, output |-> <<"out">> \o arguments_json, error |-> <<>>]

ToolFailed(arguments_json) ==
  [success |-> FALSE, output |-> <<>>, error |-> <<"failed">> \o arguments_json]

\* a timeout that is reported as a success
ToolTimedOut_AsSuccess ==
  [success |-> TRUE, output |-> TimedOutError, error |-> <<>>]

\* lines 226-229: what _execute_tool_on_main_thread returns on a timeout
ToolTimedOut == [success |-> FALSE, output |-> <<>>, error |-> TimedOutError]

\* before the first input: no worker
AgentIdle ==
  /\ wpc = "none"
  /\ w_api_style = "openai"
  /\ w_messages = <<>>
  /\ turn = 0
  /\ w_tool_calls = <<>>
  /\ turn_text = <<>>
  /\ tc_idx = 0
  /\ tool_result_messages = <<>>
  /\ _full_response = <<>>
  /\ _tool_results = <<>>
  /\ _pending_result = None
  /\ main_queue = <<>>
  /\ loading = FALSE
  /\ stream_log = <<>>
  /\ dispatched = <<>>
  /\ responses = <<>>
  /\ variations = 0

\* _send_message, lines 361-430, for the first input of the widget: the
\* text is added to the conversation, the messages for the API are taken
\* and a worker is started with them; run() takes the tool loop when
\* there are tools, the plain stream otherwise
_send_message ==
  /\ wpc = "none"
  /\ \E use_tools \in BOOLEAN, style \in ApiStyles :
       /\ ~use_tools => style = "openai"
       /\ LET msgs == Append(messages, UserMessage(Str(MaxContentLen)))
              for_api == get_messages_for_api(msgs, DefaultMaxChars, style)
          IN /\ messages' = msgs
             /\ api_called' = TRUE
             /\ api_args' = [max_chars |-> DefaultMaxChars, api_style |-> style]
             /\ api_result' = for_api
             /\ w_messages' = for_api
       /\ w_api_style' = style
       /\ wpc' = IF use_tools THEN "stream" ELSE "simple"
  /\ loading' = TRUE
  /\ UNCHANGED <<turn, w_tool_calls, turn_text, tc_idx, tool_result_messages,
                 _full_response, _tool_results, _pending_result, main_queue,
                 stream_log, dispatched, responses, variations>>

\* a response that is emitted twice
EmitResponseFinished_Twice(text) ==
  /\ main_queue' = main_queue \o <<ResponseFinished(text), ResponseFinished(text)>>
  /\ responses' = responses \o <<text, text>>

\* "self.response_finished.emit(...)"
EmitResponseFinished(text) ==
  /\ main_queue' = Append(main_queue, ResponseFinished(text))
  /\ responses' = Append(responses, text)

\* _simple_stream, lines 90-95: the chunks are added to the response, which
\* is then emitted
SimpleStream ==
  /\ wpc = "simple"
  /\ \E with_text \in BOOLEAN :
       LET text == IF with_text THEN <<"t">> ELSE <<>>
       IN /\ _full_response' = _full_response \o text
          /\ EmitResponseFinished(_full_response \o text)
  /\ wpc' = "finished"
  /\ UNCHANGED <<w_api_style, w_messages, turn, w_tool_calls, turn_text, tc_idx,
                 tool_result_messages, _tool_results, _pending_result,
                 loading, stream_log, dispatched, variations>>
  /\ UNCHANGED convVars

\* the loop of another turn
LoopContinues_OneMore(t) == t <= MaxToolTurns

\* "for turn in range(self._max_tool_turns)": the loop has a turn t
LoopContinues(t) == t < MaxToolTurns

\* a test that never ends the loop
NoToolCalls_Never(calls) == FALSE

\* "if not tool_calls"
NoToolCalls(calls) == calls = <<>>

\* one turn of _tool_loop up to the tool calls, lines 102-164: the stream
\* is consumed; without tool calls the response is emitted and the loop
\* returns, otherwise the assistant message is appended to the local
\* messages and the tool calls are executed
StreamTurn ==
  /\ wpc = "stream"
  /\ \E n \in 0..MaxCalls, with_text \in BOOLEAN :
       \E order \in Orders(n) :
         /\ variations + StreamCost(n, with_text) <= MaxVariations
         /\ variations' = variations + StreamCost(n, with_text)
         /\ LET events == StreamEvents(Len(dispatched), n, with_text, order)
                got == ConsumeStream(events, <<>>, <<>>)
            IN /\ stream_log' = Append(stream_log,
                                       [events |-> events, failed |-> FALSE])
               /\ _full_response' = _full_response \o got.text
               /\ turn_text' = got.text
               /\ w_tool_calls' = got.tool_calls
               /\ tool_result_messages' = <<>>
               /\ IF NoToolCalls(got.tool_calls)
                  THEN /\ EmitResponseFinished(_full_response \o got.text)
                       /\ wpc' = "finished"
                       /\ UNCHANGED <<w_messages, tc_idx>>
                  ELSE /\ w_messages' =
                            Append(w_messages,
                                   WorkerAssistantMessage(w_api_style, got.text,
                                                          got.tool_calls))
                       /\ tc_idx' = 1
                       /\ wpc' = "dispatch"
                       /\ UNCHANGED <<main_queue, responses>>
  /\ UNCHANGED <<w_api_style, turn, _tool_results, _pending_result, loading,
                 dispatched>>
  /\ UNCHANGED convVars

\* run, lines 87-88: the stream raises and error_occurred is emitted
StreamRaises ==
  /\ wpc \in {"stream", "simple"}
  /\ variations + RareCost <= MaxVariations
  /\ variations' = variations + RareCost
  /\ stream_log' = Append(stream_log, [events |-> <<>>, failed |-> TRUE])
  /\ main_queue' = Append(main_queue, ErrorOccurred)
  /\ wpc' = "finished"
  /\ UNCHANGED <<w_api_style, w_messages, turn, w_tool_calls, turn_text, tc_idx,
                 tool_result_messages, _full_response, _tool_results,
                 _pending_result, loading, dispatched, responses>>
  /\ UNCHANGED convVars

\* _execute_tool_on_main_thread, lines 219-220: the pending result is
\* cleared and the execution is requested from the main thread
Dispatch ==
  /\ wpc = "dispatch"
  /\ tc_idx <= Len(w_tool_calls)
  /\ _pending_result' = None
  /\ main_queue' = Append(main_queue, ToolExecRequested(w_tool_calls[tc_idx]))
  /\ dispatched' = Append(dispatched,
                          [turn |-> turn + 1, id |-> w_tool_calls[tc_idx].id])
  /\ wpc' = "wait"
  /\ UNCHANGED <<w_api_style, w_messages, turn, w_tool_calls, turn_text, tc_idx,
                 tool_result_messages, _full_response, _tool_results, loading,
                 stream_log, responses, variations>>
  /\ UNCHANGED convVars

\* a list that takes new results at its front
AddResult_AtFront(list, m) == <<m>> \o list

\* "tool_result_messages.append(...)"
AddResult(list, m) == Append(list, m)

\* the rest of the body of "for tc in tool_calls" with the result of the
\* call, lines 170-193, and after the last call the end of the turn, lines
\* 195-205; after the last turn the notice and the response, lines 207-210
RecordResult(result) ==
  LET tc == w_tool_calls[tc_idx]
      results == AddResult(tool_result_messages,
                           WorkerToolResult(w_api_style, tc.id, ResultText(result)))
  IN IF tc_idx < Len(w_tool_calls)
     THEN /\ tool_result_messages' = results
          /\ tc_idx' = tc_idx + 1
          /\ wpc' = "dispatch"
          /\ UNCHANGED <<w_messages, _tool_results, turn, _full_response,
                         main_queue, responses>>
     ELSE /\ tool_result_messages' = results
          /\ w_messages' = w_messages \o results
          /\ _tool_results' =
               Append(_tool_results,
                      TurnInfo(w_api_style, turn_text, w_tool_calls, results))
          /\ turn' = turn + 1
          /\ UNCHANGED tc_idx
          /\ IF LoopContinues(turn + 1)
             THEN /\ wpc' = "stream"
                  /\ UNCHANGED <<_full_response, main_queue, responses>>
             ELSE /\ _full_response' = _full_response \o LimitNotice
                  /\ EmitResponseFinished(_full_response \o LimitNotice)
                  /\ wpc' = "finished"

\* _execute_tool_on_main_thread, lines 225-232: the result is there
ReceiveResult ==
  /\ wpc = "wait"
  /\ _pending_result # None
  /\ RecordResult(_pending_result)
  /\ UNCHANGED <<w_api_style, w_tool_calls, turn_text, _pending_result, loading,
                 stream_log, dispatched, variations>>
  /\ UNCHANGED convVars

\* _execute_tool_on_main_thread, lines 226-229: the wait times out
WaitTimeout ==
  /\ wpc = "wait"
  /\ _pending_result = None
  /\ variations + RareCost <= MaxVariations
  /\ variations' = variations + RareCost
  /\ RecordResult(ToolTimedOut)
  /\ UNCHANGED <<w_api_style, w_tool_calls, turn_text, _pending_result, loading,
                 stream_log, dispatched>>
  /\ UNCHANGED convVars

\* _execute_tool_call, lines 625-644, and set_tool_result, lines 234-239:
\* the main thread takes the oldest request, executes the tool and gives
\* the result to the worker
_execute_tool_call ==
  /\ main_queue # <<>>
  /\ Head(main_queue).sig = "tool_exec_requested"
  /\ main_queue' = Tail(main_queue)
  /\ \/ /\ _pending_result' = ToolSucceeded(Head(main_queue).payload)
        /\ UNCHANGED variations
     \/ /\ variations < MaxVariations
        /\ variations' = variations + 1
        /\ _pending_result' = ToolFailed(Head(main_queue).payload)
  /\ UNCHANGED <<wpc, w_api_style, w_messages, turn, w_tool_calls, turn_text,
                 tc_idx, tool_result_messages, _full_response, _tool_results,
                 loading, stream_log, dispatched, responses>>
  /\ UNCHANGED convVars

\* the string without its first n characters
Drop(str, n) == SubSeq(str, n + 1, Len(str))

\* "if final_text.strip()": the text has a character that is no whitespace
NonBlank(str) == \E k \in 1..Len(str) : str[k] \notin {" ", "\n"}

\* the tool results of an entry before its assistant message
TurnMessages_ResultsFirst(turn_info) ==
  [k \in 1..Len(turn_info.results) |->
     ToolResultMessage(turn_info.results[k].tool_call_id,
                       turn_info.results[k].content)]
    \o <<AssistantMessage(turn_info.assistant_text, turn_info.tool_calls)>>

\* the messages one entry of _tool_results adds to the conversation,
\* lines 566-571
TurnMessages(turn_info) ==
  <<AssistantMessage(turn_info.assistant_text, turn_info.tool_calls)>>
    \o [k \in 1..Len(turn_info.results) |->
          ToolResultMessage(turn_info.results[k].tool_call_id,
                            turn_info.results[k].content)]

RECURSIVE AllTurnMessages(_)
AllTurnMessages(infos) ==
  IF infos = <<>> THEN <<>>
  ELSE TurnMessages(Head(infos)) \o AllTurnMessages(Tail(infos))

RECURSIVE SumAssistantText(_)
SumAssistantText(infos) ==
  IF infos = <<>> THEN 0
  ELSE Len(Head(infos).assistant_text) + SumAssistantText(Tail(infos))

\* the messages _on_response_finished adds to the conversation, lines
\* 563-581
FinishedMessages(infos, full_response) ==
  IF infos # <<>>
  THEN LET last_tool_end == SumAssistantText(infos)
           final_text == IF last_tool_end < Len(full_response)
                         THEN Drop(full_response, last_tool_end)
                         ELSE full_response
       IN AllTurnMessages(infos)
            \o (IF NonBlank(final_text)
                THEN <<AssistantMessage(final_text, <<>>)>> ELSE <<>>)
  ELSE <<AssistantMessage(full_response, <<>>)>>

\* the conversation a completed run left: the input, one turn with a tool
\* call and its result, and the final text
EarlierRun ==
  <<UserMessage(Str(MaxContentLen))>>
    \o FinishedMessages(
         <<TurnInfo("openai", <<>>, <<AgentToolCall(1)>>,
                    <<WorkerToolResult("openai", 1, <<"out", "1">>)>>)>>,
         <<"t">>)

\* the widget with the conversation of an earlier completed run
ConvAfterRun ==
  /\ messages = EarlierRun
  /\ api_called = FALSE
  /\ api_args = NoArgs
  /\ api_result = <<>>

\* _on_response_finished, lines 552-597
_on_response_finished ==
  /\ main_queue # <<>>
  /\ Head(main_queue).sig = "response_finished"
  /\ main_queue' = Tail(main_queue)
  /\ loading' = FALSE
  /\ messages' = messages
                   \o FinishedMessages(_tool_results, Head(main_queue).payload)
  /\ api_called' = FALSE
  /\ api_args' = NoArgs
  /\ api_result' = <<>>
  /\ UNCHANGED <<wpc, w_api_style, w_messages, turn, w_tool_calls, turn_text,
                 tc_idx, tool_result_messages, _full_response, _tool_results,
                 _pending_result, stream_log, dispatched, responses,
                 variations>>

\* _on_error, lines 599-609
_on_error ==
  /\ main_queue # <<>>
  /\ Head(main_queue).sig = "error_occurred"
  /\ main_queue' = Tail(main_queue)
  /\ loading' = FALSE
  /\ UNCHANGED <<wpc, w_api_style, w_messages, turn, w_tool_calls, turn_text,
                 tc_idx, tool_result_messages, _full_response, _tool_results,
                 _pending_result, stream_log, dispatched, responses,
                 variations>>
  /\ UNCHANGED convVars

\* _new_chat, lines 449-456: the "+ New Chat" button, which stays enabled
\* while a worker runs; the conversation is saved and replaced by a new one
_new_chat ==
  /\ messages' = <<>>
  /\ UNCHANGED <<api_called, api_args, api_result>>
  /\ UNCHANGED agentVars

(***************************************************************************)
(* ToolRegistry (tools/registry.py)                                        *)
(***************************************************************************)
\* the names of the tools that can be registered, and a name of no tool
RegistryNames == {"tool" \o ToString(k) : k \in 1..NumTools}

UnknownName == "nope"

\* what a handler does when it is called with parameters that fit its
\* signature: it returns a ToolResult or raises
HandlerKinds ==
  {"returns_success", "returns_failure", "raises_TypeError",
   "raises_ValueError", "raises_SystemExit"}

\* the parameters of a call: a mapping that fits the handler's signature,
\* a mapping that does not, and a value that is no mapping
ParamShapes == {"fits", "mismatch", "no_mapping"}

\* ToolResult(success, output, error)
ToolResult(success, output, error) ==
  [success |-> success, output |-> output, error |-> error]

Exc(class, message) == [class |-> class, message |-> message]

\* the classes "except Exception" catches: SystemExit derives from
\* BaseException only
ExceptionClasses ==
  {"TypeError", "ValueError", "AttributeError", "RecursionError",
   "JSONDecodeError"}

\* "tool.handler(**params)": what the call returns or raises
CallHandler(kind, params) ==
  IF params = "no_mapping"
  THEN Raised2(Exc("TypeError", <<"argument after ** must be a mapping">>))
  ELSE IF params = "mismatch"
  THEN Raised2(Exc("TypeError", <<"got an unexpected keyword argument">>))
  ELSE IF kind = "returns_success"
  THEN Returned(ToolResult(TRUE, <<"done">>, <<>>))
  ELSE IF kind = "returns_failure"
  THEN Returned(ToolResult(FALSE, <<>>, <<"no document">>))
  ELSE IF kind = "raises_TypeError"
  THEN Raised2(Exc("TypeError", <<"unsupported operand">>))
  ELSE IF kind = "raises_ValueError"
  THEN Raised2(Exc("ValueError", <<"bad value">>))
  ELSE Raised2(Exc("SystemExit", <<"3">>))

\* "except Exception": the classes the second handler of execute catches
Catches(class) == class \in ExceptionClasses

\* execute(name, params) on the registry tools, lines 61-77
execute(tools, name, params) ==
  IF name \notin DOMAIN tools
  THEN Returned(ToolResult(FALSE, <<>>, <<"Unknown tool: ", name>>))
  ELSE LET got == CallHandler(tools[name], params)
       IN IF got.how = "return" THEN got
          ELSE IF got.value.class = "TypeError"
          THEN Returned(ToolResult(FALSE, <<>>,
                   <<"Invalid parameters for ", name, ": ">> \o got.value.message))
          ELSE IF Catches(got.value.class)
          THEN Returned(ToolResult(FALSE, <<>>,
                   <<"Tool ", name, " failed: ">> \o got.value.message))
          ELSE got

NoCall == [name |-> "", params |-> "none"]

\* a new registry: __init__, lines 46-47
RegistryIdle ==
  /\ _tools = <<>>
  /\ exec_args = NoCall
  /\ exec_outcome = None

\* register, lines 49-51
register ==
  /\ \E name \in RegistryNames, kind \in HandlerKinds :
       _tools' = [n \in DOMAIN _tools \cup {name} |->
                    IF n = name THEN kind ELSE _tools[n]]
  /\ exec_args' = NoCall
  /\ exec_outcome' = None

\* a call of execute with any name and any parameters
Execute ==
  /\ \E name \in RegistryNames \cup {UnknownName}, params \in ParamShapes :
       /\ exec_args' = [name |-> name, params |-> params]
       /\ exec_outcome' = execute(_tools, name, params)
  /\ UNCHANGED _tools

(***************************************************************************)
(* LLMClient (llm/client.py): the OpenAI-compatible stream with tools      *)
(***************************************************************************)
\* JSON texts are sequences of pieces; ArgHead followed by ArgTail is the
\* text of an object with one member, every other text of these pieces is
\* no JSON
ArgHead == "{\"k\": 1"

ArgTail == "}"

ArgText == <<ArgHead, ArgTail>>

EmptyObject == [kind |-> "object", members |-> <<>>]

ParsedArgText == [kind |-> "object", members |-> <<"k">>]

\* json.loads: the value of the text, or JSONDecodeError
json_loads(text) ==
  IF text = ArgText THEN Returned(ParsedArgText)
  ELSE Raised2(Exc("JSONDecodeError", text))

\* ToolCall(id, name, arguments)
LLMToolCall(id, name, arguments) ==
  [id |-> id, name |-> name, arguments |-> arguments]

\* LLMStreamEvent(type, text, tool_call, argument_delta)
LLMStreamEvent(type, text, tool_call, argument_delta) ==
  [type |-> type, text |-> text, tool_call |-> tool_call,
   argument_delta |-> argument_delta]

DoneEvent == LLMStreamEvent("done", <<>>, None, <<>>)

\* the argument fragments a delta may carry: none, or a piece of ArgText
Fragments == {<<>>, <<ArgHead>>, <<ArgTail>>, ArgText}

\* the entries of delta.tool_calls: the first delta of a call carries its
\* id and its name, the later ones carry neither; "" stands for a field
\* that is absent or empty, which the code does not tell apart
TcDeltas ==
  [index : 0..MaxIndex, id : {""}, name : {""}, arguments : Fragments]
    \cup {[index |-> i, id |-> "call_" \o ToString(i), name |-> "tool",
           arguments |-> f] : i \in 0..MaxIndex, f \in Fragments}

FinishReasons == {"", "tool_calls", "stop"}

\* the data chunks of a stream: one without choices, and those whose first
\* choice has a delta with a text or with one tool-call entry, and a
\* finish_reason or none
NoChoices == [choices |-> FALSE, content |-> <<>>, tool_calls |-> <<>>,
              finish_reason |-> ""]

Chunks ==
  {NoChoices}
    \cup [choices : {TRUE}, content : {<<"t">>}, tool_calls : {<<>>},
          finish_reason : FinishReasons]
    \cup [choices : {TRUE}, content : {<<>>},
          tool_calls : {<<d>> : d \in TcDeltas},
          finish_reason : FinishReasons]

\* fragments put before the arguments collected so far
AppendFragment_Front(arguments_json, arg_chunk) == arg_chunk \o arguments_json

\* "pt["arguments_json"] += arg_chunk"
AppendFragment(arguments_json, arg_chunk) == arguments_json \o arg_chunk

\* the body of "for tc_delta in delta.get("tool_calls", [])", lines
\* 209-232: the pending tools and the events yielded
ProcessDelta(open_tools, tc_delta) ==
  LET idx == tc_delta.index
      pt0 == IF idx \in DOMAIN open_tools THEN open_tools[idx]
             ELSE [id |-> tc_delta.id, name |-> "", arguments_json |-> <<>>]
      pt1 == IF tc_delta.id # "" THEN [pt0 EXCEPT !.id = tc_delta.id] ELSE pt0
      pt2 == IF tc_delta.name # "" THEN [pt1 EXCEPT !.name = tc_delta.name]
             ELSE pt1
      pt3 == IF tc_delta.arguments # <<>>
             THEN [pt2 EXCEPT !.arguments_json =
                     AppendFragment(pt2.arguments_json, tc_delta.arguments)]
             ELSE pt2
  IN [pending |-> [i \in DOMAIN open_tools \cup {idx} |->
                     IF i = idx THEN pt3 ELSE open_tools[i]],
      events |->
        (IF tc_delta.name # ""
         THEN <<LLMStreamEvent("tool_call_start", <<>>,
                               LLMToolCall(pt2.id, pt2.name, EmptyObject), <<>>)>>
         ELSE <<>>)
        \o (IF tc_delta.arguments # <<>>
            THEN <<LLMStreamEvent("tool_call_delta", <<>>, None,
                                  tc_delta.arguments)>>
            ELSE <<>>)]

RECURSIVE ProcessDeltas(_, _, _)
ProcessDeltas(open_tools, events, tc_deltas) ==
  IF tc_deltas = <<>> THEN [pending |-> open_tools, events |-> events]
  ELSE LET r == ProcessDelta(open_tools, Head(tc_deltas))
       IN ProcessDeltas(r.pending, events \o r.events, Tail(tc_deltas))

\* the members of a set of numbers in ascending order
RECURSIVE Sorted(_)
Sorted(S) ==
  IF S = {} THEN <<>>
  ELSE LET m == CHOOSE x \in S : \A y \in S : x <= y
       IN <<m>> \o Sorted(S \ {m})

\* lines 237-240: the arguments of a finished tool call
ParseArguments(arguments_json) ==
  IF arguments_json = <<>> THEN EmptyObject
  ELSE IF json_loads(arguments_json).how = "return"
  THEN json_loads(arguments_json).value
  ELSE EmptyObject

\* lines 236-243: the tool_call_end events of the pending tools
ToolCallEnds(open_tools) ==
  LET order == Sorted(DOMAIN open_tools)
  IN [k \in 1..Len(order) |->
        LLMStreamEvent("tool_call_end", <<>>,
                       LLMToolCall(open_tools[order[k]].id, open_tools[order[k]].name,
                                   ParseArguments(open_tools[order[k]].arguments_json)),
                       <<>>)]

\* what the finish_reason of a chunk makes the generator yield, lines
\* 235-249
FinishEvents(open_tools, finish) ==
  IF finish = "tool_calls" THEN ToolCallEnds(open_tools) \o <<DoneEvent>>
  ELSE IF finish = "stop" THEN <<DoneEvent>>
  ELSE <<>>

\* before the first chunk of a stream; no call of send so far
LlmIdle ==
  /\ chunks_seen = <<>>
  /\ pending_tools = <<>>
  /\ yielded = <<>>
  /\ stream_pc = "streaming"
  /\ ended_by = ""
  /\ send_args = None
  /\ send_outcome = None

\* one pass of the loop of _stream_openai_tools over a data chunk, lines
\* 193-252
StreamChunk ==
  /\ stream_pc = "streaming"
  /\ Len(chunks_seen) < MaxChunks
  /\ \E chunk \in Chunks :
       /\ chunks_seen' = Append(chunks_seen, chunk)
       /\ IF ~chunk.choices
          THEN UNCHANGED <<pending_tools, yielded, stream_pc, ended_by>>
          ELSE LET text == IF chunk.content # <<>>
                           THEN <<LLMStreamEvent("text_delta", chunk.content,
                                                 None, <<>>)>>
                           ELSE <<>>
                   r == ProcessDeltas(pending_tools, <<>>, chunk.tool_calls)
               IN /\ pending_tools' = r.pending
                  /\ yielded' = yielded \o text \o r.events
                                  \o FinishEvents(r.pending, chunk.finish_reason)
                  /\ stream_pc' = IF chunk.finish_reason \in {"tool_calls", "stop"}
                                  THEN "returned" ELSE "streaming"
                  /\ ended_by' = chunk.finish_reason
  /\ UNCHANGED <<send_args, send_outcome>>

\* the line "data: [DONE]": _http_stream returns (line 437), the loop of
\* _stream_openai_tools ends and done is yielded (line 254)
StreamSentinel ==
  /\ stream_pc = "streaming"
  /\ yielded' = Append(yielded, DoneEvent)
  /\ stream_pc' = "returned"
  /\ ended_by' = "[DONE]"
  /\ UNCHANGED <<chunks_seen, pending_tools, send_args, send_outcome>>

\* the response ends without a terminal chunk: the loop ends and done is
\* yielded (line 254)
StreamEnd ==
  /\ stream_pc = "streaming"
  /\ yielded' = Append(yielded, DoneEvent)
  /\ stream_pc' = "returned"
  /\ ended_by' = "end"
  /\ UNCHANGED <<chunks_seen, pending_tools, send_args, send_outcome>>

(***************************************************************************)
(* LLMClient (llm/client.py): send and send_with_tools                     *)
(***************************************************************************)
\* JSON objects are functions from the names of their members; a member
\* may be absent
Member(name, v) == [n \in {name} |-> v]

NoMember == [n \in {} |-> None]

Optional(name, values) == {NoMember} \cup {Member(name, v) : v \in values}

Has(object, name) == name \in DOMAIN object

JsonNull == [kind |-> "null", text |-> <<>>]

JsonStr(text) == [kind |-> "str", text |-> text]

\* the entries of message.tool_calls of an OpenAI response: id, function
\* name and arguments, which are a JSON text; the id or the arguments may
\* be absent, and the arguments may be no JSON
OpenAIResponseCalls ==
  {Member("name", "tool") @@ i @@ a :
     i \in Optional("id", {"call_1"}),
     a \in Optional("arguments", {ArgText, <<ArgTail>>})}

OpenAIMessages ==
  {c @@ t : c \in Optional("content", {JsonNull, JsonStr(<<"t">>)}),
            t \in Optional("tool_calls",
                           {<<>>} \cup {<<tc>> : tc \in OpenAIResponseCalls})}

OpenAIChoices ==
  {m @@ f : m \in Optional("message", OpenAIMessages),
            f \in Optional("finish_reason", {"stop", "tool_calls"})}

\* the bodies of the responses of an OpenAI-compatible server: with the
\* id only, with no choice, and with one choice
OpenAIPayloads ==
  {Member("id", "r") @@ c :
     c \in Optional("choices", {<<>>} \cup {<<ch>> : ch \in OpenAIChoices})}

\* the content blocks of an Anthropic response
AnthropicBlocks ==
  {t @@ x : t \in {Member("type", "text")}, x \in Optional("text", {<<"t">>})}
    \cup {Member("type", "tool_use") @@ Member("name", "tool") @@ i @@ a :
            i \in Optional("id", {"toolu_1"}),
            a \in Optional("input", {ParsedArgText})}
    \cup {Member("text", <<"t">>)}

AnthropicPayloads ==
  {Member("id", "r") @@ c @@ r :
     c \in Optional("content", {<<>>} \cup {<<b>> : b \in AnthropicBlocks}),
     r \in Optional("stop_reason", {"tool_use"})}

Payloads(api_style) ==
  IF api_style = "anthropic" THEN AnthropicPayloads ELSE OpenAIPayloads

\* LLMError("Unexpected response format: ...\n" + json.dumps(data))
BadResponseFormat(data) ==
  Raised2([class |-> "LLMError", message |-> <<"Unexpected response format">>,
           payload |-> data])

\* LLMResponse(text, tool_calls, stop_reason)
LLMResponse(text, calls, stop_reason) ==
  [text |-> text, tool_calls |-> calls, stop_reason |-> stop_reason]

\* "msg.get("content") or """
TextOrEmpty(msg) ==
  IF Has(msg, "content") /\ msg.content.kind = "str" THEN msg.content.text
  ELSE <<>>

\* _send_openai, lines 139-145
_send_openai(data) ==
  IF ~Has(data, "choices") \/ data.choices = <<>> THEN BadResponseFormat(data)
  ELSE IF ~Has(data.choices[1], "message") THEN BadResponseFormat(data)
  ELSE IF ~Has(data.choices[1].message, "content") THEN BadResponseFormat(data)
  ELSE Returned(data.choices[1].message.content)

\* lines 157-165: a tool call of the response failed to convert
CallFails(tc) ==
  \/ ~Has(tc, "id")
  \/ Has(tc, "arguments") /\ json_loads(tc.arguments).how = "raise"

\* lines 157-165: the ToolCall of an entry of message.tool_calls
CallOf(tc) ==
  LLMToolCall(tc.id, tc.name,
              IF Has(tc, "arguments") THEN json_loads(tc.arguments).value
              ELSE EmptyObject)

\* _send_openai_tools, lines 147-171
_send_openai_tools(data) ==
  IF ~Has(data, "choices") \/ data.choices = <<>> THEN BadResponseFormat(data)
  ELSE IF ~Has(data.choices[1], "message") THEN BadResponseFormat(data)
  ELSE LET choice == data.choices[1]
           msg == choice.message
           finish == IF Has(choice, "finish_reason") THEN choice.finish_reason
                     ELSE "stop"
           tcs == IF Has(msg, "tool_calls") THEN msg.tool_calls ELSE <<>>
       IN IF \E k \in 1..Len(tcs) : CallFails(tcs[k])
          THEN BadResponseFormat(data)
          ELSE Returned(LLMResponse(
                 TextOrEmpty(msg),
                 [k \in 1..Len(tcs) |-> CallOf(tcs[k])],
                 IF finish = "tool_calls" THEN "tool_use" ELSE "end_turn"))

\* _send_anthropic, lines 283-289
_send_anthropic(data) ==
  IF ~Has(data, "content") \/ data.content = <<>> THEN BadResponseFormat(data)
  ELSE IF ~Has(data.content[1], "text") THEN BadResponseFormat(data)
  ELSE Returned(JsonStr(data.content[1].text))

\* lines 297-305: a content block of the response failed to convert
BlockFails(block) ==
  \/ ~Has(block, "type")
  \/ block.type = "text" /\ ~Has(block, "text")
  \/ block.type = "tool_use" /\ ~Has(block, "id")

RECURSIVE BlocksText(_)
BlocksText(blocks) ==
  IF blocks = <<>> THEN <<>>
  ELSE (IF Head(blocks).type = "text" THEN Head(blocks).text ELSE <<>>)
         \o BlocksText(Tail(blocks))

\* lines 300-304: the ToolCall of a tool_use block
BlockCall(block) ==
  LLMToolCall(block.id, block.name,
              IF Has(block, "input") THEN block.input ELSE EmptyObject)

\* _send_anthropic_tools, lines 291-310
_send_anthropic_tools(data) ==
  LET blocks == IF Has(data, "content") THEN data.content ELSE <<>>
      uses == SelectSeq(blocks, LAMBDA b : b.type = "tool_use")
  IN IF \E k \in 1..Len(blocks) : BlockFails(blocks[k])
     THEN BadResponseFormat(data)
     ELSE Returned(LLMResponse(
            BlocksText(blocks),
            [k \in 1..Len(uses) |-> BlockCall(uses[k])],
            IF Has(data, "stop_reason") THEN data.stop_reason ELSE "end_turn"))

\* send, lines 71-76
send(api_style, data) ==
  IF api_style = "anthropic" THEN _send_anthropic(data) ELSE _send_openai(data)

\* send_with_tools, lines 85-91
send_with_tools(api_style, data) ==
  IF api_style = "anthropic" THEN _send_anthropic_tools(data)
  ELSE _send_openai_tools(data)

\* a call of send with the response body the server gives
Send ==
  /\ \E api_style \in ApiStyles :
       \E data \in Payloads(api_style) :
         /\ send_args' = [api_style |-> api_style, tools |-> FALSE, data |-> data]
         /\ send_outcome' = send(api_style, data)
  /\ UNCHANGED <<chunks_seen, pending_tools, yielded, stream_pc, ended_by>>

\* a call of send_with_tools with the response body the server gives
SendWithTools ==
  /\ \E api_style \in ApiStyles :
       \E data \in Payloads(api_style) :
         /\ send_args' = [api_style |-> api_style, tools |-> TRUE, data |-> data]
         /\ send_outcome' = send_with_tools(api_style, data)
  /\ UNCHANGED <<chunks_seen, pending_tools, yielded, stream_pc, ended_by>>

(***************************************************************************)
(* The main thread and the execution of tools (ui/chat_widget.py)          *)
(***************************************************************************)
\* no slot of the widget is running
HostIdle == executing = <<>>

\* a main thread that starts a slot while another one runs
MainThreadFree_Always == TRUE

\* the slots of the widget are queued connections (line 429: the worker
\* emits from its own thread), which the event loop of the main thread
\* runs one after another; a slot starts when none is running
MainThreadFree == executing = <<>>

\* _execute_tool_call, lines 625-634: the main thread takes the oldest
\* request and calls ToolRegistry.execute
ExecuteBegin ==
  /\ MainThreadFree
  /\ main_queue # <<>>
  /\ Head(main_queue).sig = "tool_exec_requested"
  /\ main_queue' = Tail(main_queue)
  /\ executing' = Append(executing, Head(main_queue).payload)
  /\ UNCHANGED <<wpc, w_api_style, w_messages, turn, w_tool_calls, turn_text,
                 tc_idx, tool_result_messages, _full_response, _tool_results,
                 _pending_result, loading, stream_log, dispatched, responses,
                 variations>>
  /\ UNCHANGED convVars

\* _execute_tool_call, lines 635-644, and set_tool_result, lines 234-239:
\* the handler of the tool returns and the result is given to the worker
ExecuteEnd ==
  /\ executing # <<>>
  /\ executing' = Tail(executing)
  /\ \/ /\ _pending_result' = ToolSucceeded(Head(executing))
        /\ UNCHANGED variations
     \/ /\ variations < MaxVariations
        /\ variations' = variations + 1
        /\ _pending_result' = ToolFailed(Head(executing))
  /\ UNCHANGED <<wpc, w_api_style, w_messages, turn, w_tool_calls, turn_text,
                 tc_idx, tool_result_messages, _full_response, _tool_results,
                 main_queue, loading, stream_log, dispatched, responses>>
  /\ UNCHANGED convVars

(***************************************************************************)
(* The workers of the widget (ui/chat_widget.py)                           *)
(***************************************************************************)
\* "max_retries: int = 3" of the configuration
max_retries == 3

\* what the user can type: a plain text, a skill command whose skill gives
\* a prompt to inject, and a skill command whose skill gives an output
InputTexts == {"text", "/inject", "/output"}

NoText == ""

\* a QThread: it is running from start() until run() has returned; the
\* worker streams until it emits response_finished or error_occurred, the
\* last statement run() executes
ThreadStates == {"streaming", "emitted", "exited"}

WidgetIdle ==
  /\ threads = <<>>
  /\ _worker = 0
  /\ signals = <<>>
  /\ input_text = NoText
  /\ read_only = FALSE
  /\ _retry_count = 0
  /\ last_send = "none"
  /\ resubmitted = 0

\* a test that finds no worker running
isRunning_Never(w, ths) == FALSE

\* "self._worker and self._worker.isRunning()"
isRunning(w, ths) == w # 0 /\ ths[w] # "exited"

\* "self._worker = _LLMWorker(...)", the connections and "self._worker.start()"
StartWorker ==
  /\ threads' = Append(threads, "streaming")
  /\ _worker' = Len(threads) + 1

\* _set_loading, lines 881-888: the input is read-only while loading
_set_loading(flag) == read_only' = flag

\* the user edits the input, which a read-only input does not allow
Type ==
  /\ ~read_only
  /\ \E t \in InputTexts : input_text' = t
  /\ UNCHANGED <<threads, _worker, signals, read_only, _retry_count, last_send,
                 resubmitted>>
  /\ UNCHANGED convVars

\* _send_message, lines 361-430, with _handle_skill_command, lines 747-778,
\* and _send_with_injected_prompt, lines 780-800: the Send button or the
\* Enter key, which the event filter takes also when the button is disabled
_send_message_text ==
  IF input_text = NoText
  THEN /\ last_send' = "empty"
       /\ UNCHANGED <<threads, _worker, signals, input_text, read_only,
                      _retry_count, resubmitted>>
       /\ UNCHANGED convVars
  ELSE IF isRunning(_worker, threads)
  THEN /\ last_send' = "running"
       /\ UNCHANGED <<threads, _worker, signals, input_text, read_only,
                      _retry_count, resubmitted>>
       /\ UNCHANGED convVars
  ELSE /\ input_text' = NoText
       /\ _retry_count' = 0
       /\ resubmitted' = 0
       /\ UNCHANGED <<signals, api_called, api_args, api_result>>
       /\ IF input_text = "/output"
          THEN /\ Len(messages) + 2 <= MaxMsgs
               /\ messages' = messages
                    \o <<UserMessage(Str(MaxContentLen)),
                         SystemMessage(Str(MaxContentLen))>>
               /\ last_send' = "skill"
               /\ UNCHANGED <<threads, _worker, read_only>>
          ELSE /\ Len(threads) < MaxSends
               /\ messages' = messages
                    \o (IF input_text = "/inject"
                        THEN <<UserMessage(Str(MaxContentLen)),
                               UserMessage(Str(MaxContentLen))>>
                        ELSE <<UserMessage(Str(MaxContentLen))>>)
               /\ _set_loading(TRUE)
               /\ StartWorker
               /\ last_send' = "started"

\* run, lines 74-88: the worker emits its terminal signal, response_finished
\* with a response (with code blocks or without) or error_occurred
WorkerEmits ==
  /\ \E w \in 1..Len(threads) :
       /\ threads[w] = "streaming"
       /\ threads' = [threads EXCEPT ![w] = "emitted"]
  /\ \E sig \in {"response_finished", "error_occurred"} :
       signals' = Append(signals, sig)
  /\ UNCHANGED <<_worker, input_text, read_only, _retry_count, last_send,
                 resubmitted>>
  /\ UNCHANGED convVars

\* run() returns and the thread ends
WorkerExits ==
  /\ \E w \in 1..Len(threads) :
       /\ threads[w] = "emitted"
       /\ threads' = [threads EXCEPT ![w] = "exited"]
  /\ UNCHANGED <<_worker, signals, input_text, read_only, _retry_count,
                 last_send, resubmitted>>
  /\ UNCHANGED convVars

\* what _handle_act_mode, lines 648-676, comes to: no code block is
\* executed (plan mode, tools used, no code, every review declined), all
\* succeed, the first one executed fails, or one fails after a success
ActOutcomes == {"none", "success", "failure", "success_failure"}

\* _handle_execution_error, lines 678-719, after the messages ms, with the
\* retry counter at rc
_handle_execution_error(ms, rc) ==
  IF rc >= max_retries
  THEN /\ _retry_count' = 0
       /\ messages' = ms
       /\ _set_loading(FALSE)
       /\ UNCHANGED <<threads, _worker, resubmitted>>
  ELSE /\ Len(threads) < MaxWorkers
       /\ _retry_count' = rc + 1
       /\ resubmitted' = resubmitted + 1
       /\ messages' = Append(ms, SystemMessage(Str(MaxContentLen)))
       /\ _set_loading(TRUE)
       /\ StartWorker

\* _on_response_finished, lines 553-597, with _handle_act_mode and
\* _handle_execution_error
_on_response_finished_act ==
  /\ signals # <<>>
  /\ Head(signals) = "response_finished"
  /\ signals' = Tail(signals)
  /\ LET ms == messages \o FinishedMessages(<<>>, Str(MaxContentLen))
     IN \E outcome \in ActOutcomes :
          CASE outcome = "none" ->
                 /\ messages' = ms
                 /\ _set_loading(FALSE)
                 /\ UNCHANGED <<threads, _worker, _retry_count, resubmitted>>
            [] outcome = "success" ->
                 /\ messages' = ms
                 /\ _set_loading(FALSE)
                 /\ _retry_count' = 0
                 /\ UNCHANGED <<threads, _worker, resubmitted>>
            [] outcome = "failure" -> _handle_execution_error(ms, _retry_count)
            [] outcome = "success_failure" -> _handle_execution_error(ms, 0)
  /\ UNCHANGED <<input_text, last_send, api_called, api_args, api_result>>

\* _on_error, lines 599-609
_on_error_widget ==
  /\ signals # <<>>
  /\ Head(signals) = "error_occurred"
  /\ signals' = Tail(signals)
  /\ _set_loading(FALSE)
  /\ UNCHANGED <<threads, _worker, input_text, _retry_count, last_send,
                 resubmitted>>
  /\ UNCHANGED convVars

(***************************************************************************)
(* MCPServer (mcp/server.py) and StdioServerTransport (mcp/transport.py)   *)
(***************************************************************************)
\* the methods of the server's table, and a method that is not in it
ServerMethods ==
  {"initialize", "notifications/initialized", "tools/list", "tools/call",
   "ping"}

UnknownMethod == "nope"

\* the params of a tools/call message: an object with a name and arguments,
\* or a value that is no object (a list, null)
NoObject == [kind |-> "no_object"]

CallParams ==
  {[kind |-> "object", name |-> n, arguments |-> a] :
     n \in RegistryNames \cup {UnknownName}, a \in ParamShapes}
  \cup {NoObject}

\* a JSON object with a method, with or without an id (NoId: no id member,
\* or null) and params
Message(id, method, params) ==
  [kind |-> "object", id |-> id, method |-> method, params |-> params]

Messages ==
  {Message(id, method, None) :
     id \in {NoId} \cup 1..MaxId,
     method \in (ServerMethods \ {"tools/call"}) \cup {UnknownMethod}}
  \cup {Message(id, "tools/call", params) :
          id \in {NoId} \cup 1..MaxId, params \in CallParams}

\* the lines of the input: blank, no JSON text, a JSON text nested too
\* deeply for the parser, a JSON value that is no object, a message
Lines ==
  {[kind |-> "blank"], [kind |-> "garbage"], [kind |-> "too_deep"],
   [kind |-> "value"]}
  \cup Messages

\* protocol.decode, lines 23-25
decode(line) ==
  IF line.kind = "garbage" THEN Raised2(Exc("JSONDecodeError", <<"Expecting value">>))
  ELSE IF line.kind = "too_deep"
  THEN Raised2(Exc("RecursionError", <<"maximum recursion depth exceeded">>))
  ELSE Returned(line)

\* "msg.get(...)" on a value that is no dict
NoGet == Raised2(Exc("AttributeError", <<"object has no attribute 'get'">>))

\* "self._registry.to_mcp_schema()": ToolRegistry defines to_openai_schema
\* and to_anthropic_schema (registry.py, lines 79-102) and no to_mcp_schema
to_mcp_schema(tools) ==
  Raised2(Exc("AttributeError",
              <<"'ToolRegistry' object has no attribute 'to_mcp_schema'">>))

\* _handle_tool_call, lines 66-85
_handle_tool_call(tools, msg_id, params) ==
  IF params.kind # "object" THEN NoGet
  ELSE LET got == execute(tools, params.name, params.arguments)
       IN IF got.how = "raise" THEN got
          ELSE IF got.value.success
          THEN Returned(make_response(msg_id,
                   [content |-> <<got.value.output>>, isError |-> FALSE]))
          ELSE Returned(make_response(msg_id,
                   [content |-> <<IF got.value.error # <<>> THEN got.value.error
                                  ELSE <<"Unknown error">> >>,
                    isError |-> TRUE]))

\* MCPServer._handle, lines 31-64
_handle(tools, msg) ==
  IF msg.kind # "object" THEN NoGet
  ELSE IF msg.method = "initialize"
  THEN Returned(make_response(msg.id, "server_info"))
  ELSE IF msg.method = "notifications/initialized" THEN Returned(None)
  ELSE IF msg.method = "tools/list"
  THEN LET schema == to_mcp_schema(tools)
       IN IF schema.how = "raise" THEN schema
          ELSE Returned(make_response(msg.id, [tools |-> schema.value]))
  ELSE IF msg.method = "tools/call"
  THEN _handle_tool_call(tools, msg.id, msg.params)
  ELSE IF msg.method = "ping" THEN Returned(make_response(msg.id, "empty"))
  ELSE IF msg.id # NoId
  THEN Returned(make_error(msg.id, METHOD_NOT_FOUND,
                           <<"Method not found: ", msg.method>>))
  ELSE Returned(None)

\* an except clause that answers every message
ExceptionResponse_AnyId(msg_id, exc) ==
  make_error(msg_id, INTERNAL_ERROR, exc.message)

\* run, lines 176-183: the response for an exception of the handler
ExceptionResponse(msg_id, exc) ==
  IF msg_id # NoId THEN make_error(msg_id, INTERNAL_ERROR, exc.message)
  ELSE None

ServerIdle ==
  /\ srv_pc = "created"
  /\ srv_count = 0
  /\ srv_line = None
  /\ srv_msg = None
  /\ srv_out = <<>>
  /\ srv_raised = None

\* MCPServer.run, lines 25-29: the transport is made and its loop entered
ServerRun ==
  /\ srv_pc = "created"
  /\ srv_pc' = "reading"
  /\ UNCHANGED <<srv_count, srv_line, srv_msg, srv_out, srv_raised>>
  /\ UNCHANGED registryVars

\* run, lines 157-172: a line is read and decoded
ServerRead ==
  /\ srv_pc = "reading"
  /\ srv_count < MaxLines
  /\ srv_count' = srv_count + 1
  /\ \E line \in Lines :
       /\ srv_line' = line
       /\ IF line.kind = "blank"
          THEN /\ srv_pc' = "reading"
               /\ srv_msg' = None
               /\ srv_out' = <<>>
          ELSE LET got == decode(line)
               IN IF got.how = "return"
                  THEN /\ srv_pc' = "handling"
                       /\ srv_msg' = got.value
                       /\ srv_out' = <<>>
                  ELSE IF got.value.class = "JSONDecodeError"
                  THEN /\ srv_pc' = "reading"
                       /\ srv_msg' = None
                       /\ srv_out' = <<make_error(NoId, PARSE_ERROR, "Parse error")>>
                  ELSE /\ srv_pc' = "broke"
                       /\ srv_msg' = None
                       /\ srv_out' = <<>>
  /\ UNCHANGED srv_raised
  /\ UNCHANGED registryVars

\* run, lines 158-160: readline returns the empty string at the end of input
ServerEof ==
  /\ srv_pc = "reading"
  /\ srv_pc' = "ended"
  /\ UNCHANGED <<srv_count, srv_line, srv_msg, srv_out, srv_raised>>
  /\ UNCHANGED registryVars

\* run, lines 174-186: the handler is called and its response written; the
\* except clause reads msg.get("id"), which raises for a value that is no
\* dict, and that exception, as one that is no Exception, leaves run
ServerHandle ==
  /\ srv_pc = "handling"
  /\ LET got == _handle(_tools, srv_msg)
     IN IF got.how = "return"
        THEN /\ srv_out' = IF got.value # None THEN <<got.value>> ELSE <<>>
             /\ srv_pc' = "reading"
             /\ UNCHANGED srv_raised
        ELSE IF ~Catches(got.value.class)
        THEN /\ srv_pc' = "raised"
             /\ srv_raised' = got.value
             /\ UNCHANGED srv_out
        ELSE IF srv_msg.kind # "object"
        THEN /\ srv_pc' = "raised"
             /\ srv_raised' = NoGet.value
             /\ UNCHANGED srv_out
        ELSE LET response == ExceptionResponse(srv_msg.id, got.value)
             IN /\ srv_out' = IF response # None THEN <<response>> ELSE <<>>
                /\ srv_pc' = "reading"
                /\ UNCHANGED srv_raised
  /\ UNCHANGED <<srv_count, srv_line, srv_msg>>
  /\ UNCHANGED registryVars

(***************************************************************************)
(* MCPManager: the tools of the servers in the registry (mcp/manager.py)   *)
(***************************************************************************)
\* names are sequences of characters; the separator of the namespace
Separator == <<"_", "_">>

\* the names of servers: any non-empty text is accepted as a name
ManagerServerNames ==
  {<<"f", "s">>, <<"a">>, <<"a", "_", "_", "b">>}

\* the names of the tools of a server
CatalogNames == {<<"r">>, <<"b", "_", "_", "r">>}

\* the catalogs of a client: the names of its tools, each once
Catalogs ==
  {<<>>} \cup {<<t>> : t \in CatalogNames}
  \cup {c \in {<<t, u>> : t \in CatalogNames, u \in CatalogNames} :
          c[1] # c[2]}

\* f"{server_name}__{tool_info.name}"
namespaced(server_name, tool_name) == server_name \o Separator \o tool_name

\* the positions at which "__" occurs in the name
Occurrences(name) ==
  {i \in 1..(Len(name) - 1) : SubSeq(name, i, i + 1) = Separator}

\* "__" in name
HasSeparator(name) == Occurrences(name) # {}

\* name.split("__", 1)[0]: the text before the first "__"
SplitHead(name) ==
  LET first == CHOOSE i \in Occurrences(name) :
                 \A j \in Occurrences(name) : i <= j
  IN SubSeq(name, 1, first - 1)

\* the names in the dict of clients
ClientNames(cs) == {cs[k].name : k \in 1..Len(cs)}

\* is_mcp_tool, lines 81-83
is_mcp_tool(cs, name) ==
  HasSeparator(name) /\ SplitHead(name) \in ClientNames(cs)

\* make_handler(c, tn), lines 66-70: the handler calls c.call_tool(tn, kwargs)
make_handler(c, tn) == [c |-> c, tn |-> tn]

\* the call a handler makes for its arguments
HandlerCall(handler, kwargs) ==
  [client |-> handler.c, name |-> handler.tn, arguments |-> kwargs]

\* ToolDefinition(name, ..., handler, category="mcp"), lines 72-78
McpToolDefinition(name, handler) ==
  [name |-> name, handler |-> handler, category |-> "mcp"]

\* the inner loop of register_tools_into, lines 58-79, for client k: the
\* definitions of its tools from the i-th on
RECURSIVE ClientDefinitions(_, _, _)
ClientDefinitions(cs, k, i) ==
  IF i > Len(cs[k].tools) THEN <<>>
  ELSE <<McpToolDefinition(namespaced(cs[k].name, cs[k].tools[i]),
                           make_handler(k, cs[k].tools[i]))>>
       \o ClientDefinitions(cs, k, i + 1)

\* a loop that takes every client
Skipped_Never(client) == FALSE

\* "if not client.is_connected: continue"
Skipped(client) == ~client.connected

\* the outer loop, lines 55-57: the definitions of the clients from the
\* k-th on
RECURSIVE AllDefinitions(_, _)
AllDefinitions(cs, k) ==
  IF k > Len(cs) THEN <<>>
  ELSE (IF Skipped(cs[k]) THEN <<>> ELSE ClientDefinitions(cs, k, 1))
       \o AllDefinitions(cs, k + 1)

\* ToolRegistry.register for each definition in turn: the latest
\* definition of a name replaces the one before
RECURSIVE RegisterAll(_, _)
RegisterAll(tools, definitions) ==
  IF definitions = <<>> THEN tools
  ELSE LET d == Head(definitions)
       IN RegisterAll([n \in DOMAIN tools \cup {d.name} |->
                         IF n = d.name THEN d ELSE tools[n]],
                      Tail(definitions))

\* the names of built-in tools (freecad_tools.py, ALL_TOOLS): words joined
\* by single underscores
BuiltinNames == {<<"r">>, <<"a", "_", "b">>}

\* a ToolDefinition of freecad_tools.py, category "general"
BuiltinDefinition(name) ==
  [name |-> name, handler |-> make_handler(0, name), category |-> "general"]

NoQuery == [name |-> <<>>, answer |-> FALSE, asked |-> FALSE]

ManagerIdle ==
  /\ _clients = <<>>
  /\ mpc = "clients"
  /\ reg_log = <<>>
  /\ mcp_query = NoQuery

\* connect_all, lines 37-40, for a config that connects: the client is put
\* in the dict; whether it is connected when the tools are registered
\* depends on its process, which may have ended since
ManagerAddClient ==
  /\ mpc = "clients"
  /\ Len(_clients) < MaxClients
  /\ \E name \in ManagerServerNames \ ClientNames(_clients),
        connected \in BOOLEAN, tools \in Catalogs :
       _clients' = Append(_clients,
                          [name |-> name, connected |-> connected, tools |-> tools])
  /\ UNCHANGED <<mpc, reg_log, mcp_query>>
  /\ UNCHANGED registryVars

\* create_default_registry, setup.py lines 17-19: a new registry with every
\* built-in tool
RegisterBuiltins ==
  /\ mpc = "clients"
  /\ _tools = <<>>
  /\ _tools' = [n \in BuiltinNames |-> BuiltinDefinition(n)]
  /\ UNCHANGED <<exec_args, exec_outcome>>
  /\ UNCHANGED managerVars

\* register_tools_into, lines 53-79
register_tools_into ==
  /\ mpc = "clients"
  /\ mpc' = "registered"
  /\ reg_log' = AllDefinitions(_clients, 1)
  /\ _tools' = RegisterAll(_tools, AllDefinitions(_clients, 1))
  /\ UNCHANGED <<_clients, mcp_query, exec_args, exec_outcome>>

\* the names of tools asked about: those of the namespace and local ones
QueryNames ==
  {namespaced(sn, t) : sn \in ManagerServerNames, t \in CatalogNames}
  \cup CatalogNames \cup {<<"_", "_", "r">>, <<"x", "_", "_", "r">>, <<"a", "_">>}

\* a call of is_mcp_tool
IsMcpTool ==
  /\ mpc = "registered"
  /\ \E name \in QueryNames :
       mcp_query' = [name |-> name, answer |-> is_mcp_tool(_clients, name),
                     asked |-> TRUE]
  /\ UNCHANGED <<_clients, mpc, reg_log>>
  /\ UNCHANGED registryVars


(***************************************************************************)
(* Undo transactions (tools/freecad_tools.py, core/executor.py)            *)
(***************************************************************************)
\* the two functions that run an operation on the document
UndoFunctions == {"_with_undo", "execute_code"}

\* an invocation: the function, whether there is an active document, and
\* whether the operation is run (execute_code returns before it when the
\* validation or the sandbox rejects the code, _with_undo without document)
Invocation(fn, doc, run) == [fn |-> fn, doc |-> doc, run |-> run]

UndoIdle ==
  /\ inv = None
  /\ upc = "idle"
  /\ txn = 0
  /\ txn_log = <<>>
  /\ raised_in = "none"
  /\ inv_count = 0
  /\ UndoCount = 0

\* "doc.openTransaction(label)", under "if doc:" in execute_code
OpenCalls(doc) == IF doc THEN <<"open">> ELSE <<>>

\* "doc.commitTransaction()", under "if doc:" in execute_code
CommitCalls(doc) == IF doc THEN <<"commit">> ELSE <<>>

\* an except clause that leaves the transaction as it is
AbortCalls_None(doc) == <<>>

\* "doc.abortTransaction()", under "if doc:" in execute_code
AbortCalls(doc) == IF doc THEN <<"abort">> ELSE <<>>

\* _with_undo, lines 12-16, and execute_code, lines 175-215: the early
\* returns, and the opening of the transaction
UndoBegin ==
  /\ upc \in {"idle", "returned"}
  /\ inv_count < MaxInvocations
  /\ inv_count' = inv_count + 1
  /\ raised_in' = "none"
  /\ \E fn \in UndoFunctions, doc \in BOOLEAN, accepted \in BOOLEAN :
       LET run == IF fn = "_with_undo" THEN doc ELSE accepted
       IN /\ fn = "_with_undo" => accepted
          /\ inv' = Invocation(fn, doc, run)
          /\ IF run
             THEN /\ txn_log' = OpenCalls(doc)
                  /\ txn' = txn + Len(OpenCalls(doc))
                  /\ upc' = "opened"
             ELSE /\ txn_log' = <<>>
                  /\ txn' = txn
                  /\ upc' = "returned"
  /\ UNCHANGED UndoCount

\* "result = func(doc)", "exec(code, namespace)" under the alarm: the
\* operation returns, or raises (an error of the host, the TimeoutError of
\* the alarm handler)
UndoOperate ==
  /\ upc = "opened"
  /\ \E raises \in BOOLEAN :
       /\ upc' = IF raises THEN "failed" ELSE "operated"
       /\ raised_in' = IF raises THEN "operation" ELSE "none"
  /\ UNCHANGED <<inv, txn, txn_log, inv_count, UndoCount>>

\* "doc.recompute()", "_recompute(namespace)"
UndoRecompute ==
  /\ upc = "operated"
  /\ \E raises \in BOOLEAN :
       /\ upc' = IF raises THEN "failed" ELSE "recomputed"
       /\ raised_in' = IF raises THEN "recompute" ELSE "none"
  /\ UNCHANGED <<inv, txn, txn_log, inv_count, UndoCount>>

\* "doc.commitTransaction()" and the return of the result
UndoCommit ==
  /\ upc = "recomputed"
  /\ txn_log' = txn_log \o CommitCalls(inv.doc)
  /\ txn' = txn - Len(CommitCalls(inv.doc))
  /\ UndoCount' = UndoCount + Len(CommitCalls(inv.doc))
  /\ upc' = "returned"
  /\ UNCHANGED <<inv, raised_in, inv_count>>

\* "except Exception": "doc.abortTransaction()", "doc.recompute()" with its
\* exceptions passed over, and the return of the failure
UndoAbort ==
  /\ upc = "failed"
  /\ txn_log' = txn_log \o AbortCalls(inv.doc)
  /\ txn' = txn - Len(AbortCalls(inv.doc))
  /\ upc' = "returned"
  /\ UNCHANGED <<inv, raised_in, inv_count, UndoCount>>


(***************************************************************************)
(* LLMClient (llm/client.py): the Anthropic stream with tools              *)
(***************************************************************************)
\* no content block is open
NoBlock == [type |-> "none", id |-> "", name |-> ""]

\* the content block of a content_block_start: a text block, or the k-th
\* tool_use block of the message with its id and its name
TextBlock == [type |-> "text", id |-> "", name |-> ""]

ToolUseBlock(k) == [type |-> "tool_use", id |-> "toolu_" \o ToString(k), name |-> "tool"]

\* the data chunks of the stream
AnthropicChunk(type, content_block, delta_type, text) ==
  [type |-> type, content_block |-> content_block, delta_type |-> delta_type,
   text |-> text]

\* the tool_use blocks started so far
ToolBlocksStarted(chunks) ==
  Cardinality({k \in 1..Len(chunks) :
                 /\ chunks[k].type = "content_block_start"
                 /\ chunks[k].content_block.type = "tool_use"})

\* the chunks the provider may send next: blocks come one after another,
\* each with its start, its deltas and its stop
NextChunks(chunks, block) ==
  IF block.type = "none"
  THEN {AnthropicChunk("content_block_start", TextBlock, "", <<>>),
        AnthropicChunk("content_block_start",
                       ToolUseBlock(ToolBlocksStarted(chunks) + 1), "", <<>>),
        AnthropicChunk("message_delta", NoBlock, "", <<>>),
        AnthropicChunk("ping", NoBlock, "", <<>>),
        AnthropicChunk("message_stop", NoBlock, "", <<>>)}
  ELSE IF block.type = "text"
  THEN {AnthropicChunk("content_block_delta", NoBlock, "text_delta", <<"t">>),
        AnthropicChunk("content_block_stop", NoBlock, "", <<>>)}
  ELSE {AnthropicChunk("content_block_delta", NoBlock, "input_json_delta", f) :
          f \in {<<>>, <<ArgHead>>, <<ArgTail>>}}
         \cup {AnthropicChunk("content_block_stop", NoBlock, "", <<>>)}

\* a stream in dialect d, before its first chunk
AnthropicStart(d) ==
  /\ dialect = d
  /\ a_chunks = <<>>
  /\ current_tool_id = ""
  /\ current_tool_name = ""
  /\ current_tool_json = <<>>
  /\ open_block = NoBlock

AnthropicIdle == AnthropicStart("openai")

\* a content_block_stop that leaves the name of the tool call in place
NameAfterStop_Keep(name) == name

\* "current_tool_name = """ at a content_block_stop
NameAfterStop(name) == ""

\* a message_stop after which the loop goes on
AfterMessageStop_GoesOn == "streaming"

\* "return" after the done of a message_stop
AfterMessageStop == "returned"

\* one pass of the loop of _stream_anthropic_tools over a data chunk, lines
\* 331-379
AnthropicStreamChunk ==
  /\ dialect = "anthropic"
  /\ stream_pc = "streaming"
  /\ Len(a_chunks) < MaxEvents
  /\ \E chunk \in NextChunks(a_chunks, open_block) :
       /\ a_chunks' = Append(a_chunks, chunk)
       /\ open_block' = IF chunk.type = "content_block_start" THEN chunk.content_block
                        ELSE IF chunk.type = "content_block_stop" THEN NoBlock
                        ELSE open_block
       /\ IF chunk.type = "content_block_start"
          THEN IF chunk.content_block.type = "tool_use"
               THEN /\ current_tool_id' = chunk.content_block.id
                    /\ current_tool_name' = chunk.content_block.name
                    /\ current_tool_json' = <<>>
                    /\ yielded' = Append(yielded,
                         LLMStreamEvent("tool_call_start", <<>>,
                                        LLMToolCall(chunk.content_block.id,
                                                    chunk.content_block.name,
                                                    EmptyObject), <<>>))
                    /\ UNCHANGED <<stream_pc, ended_by>>
               ELSE UNCHANGED <<current_tool_id, current_tool_name,
                                current_tool_json, yielded, stream_pc, ended_by>>
          ELSE IF chunk.type = "content_block_delta"
          THEN IF chunk.delta_type = "text_delta"
               THEN /\ yielded' = IF chunk.text # <<>>
                                  THEN Append(yielded,
                                         LLMStreamEvent("text_delta", chunk.text,
                                                        None, <<>>))
                                  ELSE yielded
                    /\ UNCHANGED <<current_tool_id, current_tool_name,
                                   current_tool_json, stream_pc, ended_by>>
               ELSE IF chunk.delta_type = "input_json_delta" /\ chunk.text # <<>>
               THEN /\ current_tool_json' = current_tool_json \o chunk.text
                    /\ yielded' = Append(yielded,
                         LLMStreamEvent("tool_call_delta", <<>>, None, chunk.text))
                    /\ UNCHANGED <<current_tool_id, current_tool_name,
                                   stream_pc, ended_by>>
               ELSE UNCHANGED <<current_tool_id, current_tool_name,
                                current_tool_json, yielded, stream_pc, ended_by>>
          ELSE IF chunk.type = "content_block_stop"
          THEN IF current_tool_name # ""
               THEN /\ yielded' = Append(yielded,
                         LLMStreamEvent("tool_call_end", <<>>,
                                        LLMToolCall(current_tool_id, current_tool_name,
                                                    ParseArguments(current_tool_json)),
                                        <<>>))
                    /\ current_tool_name' = NameAfterStop(current_tool_name)
                    /\ current_tool_id' = ""
                    /\ current_tool_json' = <<>>
                    /\ UNCHANGED <<stream_pc, ended_by>>
               ELSE UNCHANGED <<current_tool_id, current_tool_name,
                                current_tool_json, yielded, stream_pc, ended_by>>
          ELSE IF chunk.type = "message_stop"
          THEN /\ yielded' = Append(yielded, DoneEvent)
               /\ stream_pc' = AfterMessageStop
               /\ ended_by' = "message_stop"
               /\ UNCHANGED <<current_tool_id, current_tool_name, current_tool_json>>
          ELSE UNCHANGED <<current_tool_id, current_tool_name,
                           current_tool_json, yielded, stream_pc, ended_by>>
  /\ UNCHANGED <<dialect, chunks_seen, pending_tools, send_args, send_outcome>>

\* reading the response raises (_http_stream, line 428: "for raw_line in
\* resp"), or a chunk makes the loop raise: the generator raises
StreamRaises2 ==
  /\ stream_pc = "streaming"
  /\ stream_pc' = "raised"
  /\ ended_by' = "raise"
  /\ UNCHANGED <<chunks_seen, pending_tools, yielded, send_args, send_outcome>>

(***************************************************************************)
(* Specifications                                                          *)
(***************************************************************************)
\* the conversation store alone: any sequence of add_* calls, then
\* get_messages_for_api with any budget and dialect
InitConv == ConvInit /\ TransportIdle /\ McpIdle /\ AgentIdle /\ RegistryIdle /\ LlmIdle /\ HostIdle /\ WidgetIdle /\ ServerIdle /\ ManagerIdle /\ UndoIdle /\ AnthropicIdle

NextConv ==
  \/ add_user_message /\ UNCHANGED <<transportVars, mcpVars, agentVars, registryVars, llmVars, hostVars, widgetVars, serverVars, managerVars, undoVars, anthVars>>
  \/ add_assistant_message /\ UNCHANGED <<transportVars, mcpVars, agentVars, registryVars, llmVars, hostVars, widgetVars, serverVars, managerVars, undoVars, anthVars>>
  \/ add_tool_result /\ UNCHANGED <<transportVars, mcpVars, agentVars, registryVars, llmVars, hostVars, widgetVars, serverVars, managerVars, undoVars, anthVars>>
  \/ add_system_message /\ UNCHANGED <<transportVars, mcpVars, agentVars, registryVars, llmVars, hostVars, widgetVars, serverVars, managerVars, undoVars, anthVars>>
  \/ GetMessagesForApi /\ UNCHANGED <<transportVars, mcpVars, agentVars, registryVars, llmVars, hostVars, widgetVars, serverVars, managerVars, undoVars, anthVars>>

SpecConv == InitConv /\ [][NextConv]_vars

\* one started transport used by NumCallers threads, its reader thread and
\* the server behind it
InitTransport == ConvInit /\ TransportStarted /\ McpIdle /\ AgentIdle /\ RegistryIdle /\ LlmIdle /\ HostIdle /\ WidgetIdle /\ ServerIdle /\ ManagerIdle /\ UndoIdle /\ AnthropicIdle

NextTransport ==
  \/ \E c \in Callers : CallerSend(c) /\ UNCHANGED <<convVars, mcpVars, agentVars, registryVars, llmVars, hostVars, widgetVars, serverVars, managerVars, undoVars, anthVars>>
  \/ \E c \in Callers : SendWrite(c) /\ UNCHANGED <<convVars, mcpVars, agentVars, registryVars, llmVars, hostVars, widgetVars, serverVars, managerVars, undoVars, anthVars>>
  \/ \E c \in Callers : SendWriteFails(c) /\ UNCHANGED <<convVars, mcpVars, agentVars, registryVars, llmVars, hostVars, widgetVars, serverVars, managerVars, undoVars, anthVars>>
  \/ \E c \in Callers : SendTimeout(c) /\ UNCHANGED <<convVars, mcpVars, agentVars, registryVars, llmVars, hostVars, widgetVars, serverVars, managerVars, undoVars, anthVars>>
  \/ \E c \in Callers : SendTimeoutPop(c) /\ UNCHANGED <<convVars, mcpVars, agentVars, registryVars, llmVars, hostVars, widgetVars, serverVars, managerVars, undoVars, anthVars>>
  \/ \E c \in Callers : SendPop(c) /\ UNCHANGED <<convVars, mcpVars, agentVars, registryVars, llmVars, hostVars, widgetVars, serverVars, managerVars, undoVars, anthVars>>
  \/ ServerRespond /\ UNCHANGED <<convVars, mcpVars, agentVars, registryVars, llmVars, hostVars, widgetVars, serverVars, managerVars, undoVars, anthVars>>
  \/ ServerNoise /\ UNCHANGED <<convVars, mcpVars, agentVars, registryVars, llmVars, hostVars, widgetVars, serverVars, managerVars, undoVars, anthVars>>
  \/ ServerExit /\ UNCHANGED <<convVars, mcpVars, agentVars, registryVars, llmVars, hostVars, widgetVars, serverVars, managerVars, undoVars, anthVars>>
  \/ ReaderRead /\ UNCHANGED <<convVars, mcpVars, agentVars, registryVars, llmVars, hostVars, widgetVars, serverVars, managerVars, undoVars, anthVars>>
  \/ ReaderEnd /\ UNCHANGED <<convVars, mcpVars, agentVars, registryVars, llmVars, hostVars, widgetVars, serverVars, managerVars, undoVars, anthVars>>
  \/ ReaderMatch /\ UNCHANGED <<convVars, mcpVars, agentVars, registryVars, llmVars, hostVars, widgetVars, serverVars, managerVars, undoVars, anthVars>>

SpecTransport == InitTransport /\ [][NextTransport]_vars

\* the same, and another thread calls stop() once, at any time
InitTransportStop == ConvInit /\ TransportStarted /\ McpIdle /\ AgentIdle /\ RegistryIdle /\ LlmIdle /\ HostIdle /\ WidgetIdle /\ ServerIdle /\ ManagerIdle /\ UndoIdle /\ AnthropicIdle

NextTransportStop ==
  \/ \E c \in Callers : CallerSend(c) /\ UNCHANGED <<convVars, mcpVars, agentVars, registryVars, llmVars, hostVars, widgetVars, serverVars, managerVars, undoVars, anthVars>>
  \/ \E c \in Callers : SendWrite(c) /\ UNCHANGED <<convVars, mcpVars, agentVars, registryVars, llmVars, hostVars, widgetVars, serverVars, managerVars, undoVars, anthVars>>
  \/ \E c \in Callers : SendWriteFails(c) /\ UNCHANGED <<convVars, mcpVars, agentVars, registryVars, llmVars, hostVars, widgetVars, serverVars, managerVars, undoVars, anthVars>>
  \/ \E c \in Callers : SendTimeout(c) /\ UNCHANGED <<convVars, mcpVars, agentVars, registryVars, llmVars, hostVars, widgetVars, serverVars, managerVars, undoVars, anthVars>>
  \/ \E c \in Callers : SendTimeoutPop(c) /\ UNCHANGED <<convVars, mcpVars, agentVars, registryVars, llmVars, hostVars, widgetVars, serverVars, managerVars, undoVars, anthVars>>
  \/ \E c \in Callers : SendPop(c) /\ UNCHANGED <<convVars, mcpVars, agentVars, registryVars, llmVars, hostVars, widgetVars, serverVars, managerVars, undoVars, anthVars>>
  \/ ServerRespond /\ UNCHANGED <<convVars, mcpVars, agentVars, registryVars, llmVars, hostVars, widgetVars, serverVars, managerVars, undoVars, anthVars>>
  \/ ServerNoise /\ UNCHANGED <<convVars, mcpVars, agentVars, registryVars, llmVars, hostVars, widgetVars, serverVars, managerVars, undoVars, anthVars>>
  \/ ServerExit /\ UNCHANGED <<convVars, mcpVars, agentVars, registryVars, llmVars, hostVars, widgetVars, serverVars, managerVars, undoVars, anthVars>>
  \/ ReaderRead /\ UNCHANGED <<convVars, mcpVars, agentVars, registryVars, llmVars, hostVars, widgetVars, serverVars, managerVars, undoVars, anthVars>>
  \/ ReaderEnd /\ UNCHANGED <<convVars, mcpVars, agentVars, registryVars, llmVars, hostVars, widgetVars, serverVars, managerVars, undoVars, anthVars>>
  \/ ReaderMatch /\ UNCHANGED <<convVars, mcpVars, agentVars, registryVars, llmVars, hostVars, widgetVars, serverVars, managerVars, undoVars, anthVars>>
  \/ StopTerminate /\ UNCHANGED <<convVars, mcpVars, agentVars, registryVars, llmVars, hostVars, widgetVars, serverVars, managerVars, undoVars, anthVars>>
  \/ StopUnblock /\ UNCHANGED <<convVars, mcpVars, agentVars, registryVars, llmVars, hostVars, widgetVars, serverVars, managerVars, undoVars, anthVars>>

SpecTransportStop == InitTransportStop /\ [][NextTransportStop]_vars

\* connect_all over up to MaxServers configs: the connecting thread, the
\* reader thread of the transport of the client being connected and the
\* server behind it, which may answer, stay silent or end
InitConnect == ConvInit /\ TransportIdle /\ McpIdle /\ AgentIdle /\ RegistryIdle /\ LlmIdle /\ HostIdle /\ WidgetIdle /\ ServerIdle /\ ManagerIdle /\ UndoIdle /\ AnthropicIdle

NextConnect ==
  \/ ConnectAllDone /\ UNCHANGED <<convVars, agentVars, registryVars, llmVars, hostVars, widgetVars, serverVars, managerVars, undoVars, anthVars>>
  \/ ConnectAllSkip /\ UNCHANGED <<convVars, agentVars, registryVars, llmVars, hostVars, widgetVars, serverVars, managerVars, undoVars, anthVars>>
  \/ ConnectAllRaises /\ UNCHANGED <<convVars, agentVars, registryVars, llmVars, hostVars, widgetVars, serverVars, managerVars, undoVars, anthVars>>
  \/ ClientCreate /\ UNCHANGED <<convVars, agentVars, registryVars, llmVars, hostVars, widgetVars, serverVars, managerVars, undoVars, anthVars>>
  \/ TransportStart /\ UNCHANGED <<convVars, agentVars, registryVars, llmVars, hostVars, widgetVars, serverVars, managerVars, undoVars, anthVars>>
  \/ TransportStartFails /\ UNCHANGED <<convVars, agentVars, registryVars, llmVars, hostVars, widgetVars, serverVars, managerVars, undoVars, anthVars>>
  \/ ConnectInitialize /\ UNCHANGED <<convVars, agentVars, registryVars, llmVars, hostVars, widgetVars, serverVars, managerVars, undoVars, anthVars>>
  \/ ConnectInitialized /\ UNCHANGED <<convVars, agentVars, registryVars, llmVars, hostVars, widgetVars, serverVars, managerVars, undoVars, anthVars>>
  \/ ConnectNotify /\ UNCHANGED <<convVars, agentVars, registryVars, llmVars, hostVars, widgetVars, serverVars, managerVars, undoVars, anthVars>>
  \/ ConnectNotifyFails /\ UNCHANGED <<convVars, agentVars, registryVars, llmVars, hostVars, widgetVars, serverVars, managerVars, undoVars, anthVars>>
  \/ ConnectListTools /\ UNCHANGED <<convVars, agentVars, registryVars, llmVars, hostVars, widgetVars, serverVars, managerVars, undoVars, anthVars>>
  \/ ConnectToolsListed /\ UNCHANGED <<convVars, agentVars, registryVars, llmVars, hostVars, widgetVars, serverVars, managerVars, undoVars, anthVars>>
  \/ ConnectMarkConnected /\ UNCHANGED <<convVars, agentVars, registryVars, llmVars, hostVars, widgetVars, serverVars, managerVars, undoVars, anthVars>>
  \/ ManagerKeep /\ UNCHANGED <<convVars, agentVars, registryVars, llmVars, hostVars, widgetVars, serverVars, managerVars, undoVars, anthVars>>
  \/ ManagerCatch /\ UNCHANGED <<convVars, agentVars, registryVars, llmVars, hostVars, widgetVars, serverVars, managerVars, undoVars, anthVars>>
  \/ SendWrite(Connector) /\ UNCHANGED <<convVars, mcpVars, agentVars, registryVars, llmVars, hostVars, widgetVars, serverVars, managerVars, undoVars, anthVars>>
  \/ SendWriteFails(Connector) /\ UNCHANGED <<convVars, mcpVars, agentVars, registryVars, llmVars, hostVars, widgetVars, serverVars, managerVars, undoVars, anthVars>>
  \/ SendTimeout(Connector) /\ UNCHANGED <<convVars, mcpVars, agentVars, registryVars, llmVars, hostVars, widgetVars, serverVars, managerVars, undoVars, anthVars>>
  \/ SendTimeoutPop(Connector) /\ UNCHANGED <<convVars, mcpVars, agentVars, registryVars, llmVars, hostVars, widgetVars, serverVars, managerVars, undoVars, anthVars>>
  \/ SendPop(Connector) /\ UNCHANGED <<convVars, mcpVars, agentVars, registryVars, llmVars, hostVars, widgetVars, serverVars, managerVars, undoVars, anthVars>>
  \/ ServerRespond /\ UNCHANGED <<convVars, mcpVars, agentVars, registryVars, llmVars, hostVars, widgetVars, serverVars, managerVars, undoVars, anthVars>>
  \/ ServerNoise /\ UNCHANGED <<convVars, mcpVars, agentVars, registryVars, llmVars, hostVars, widgetVars, serverVars, managerVars, undoVars, anthVars>>
  \/ ServerExit /\ UNCHANGED <<convVars, mcpVars, agentVars, registryVars, llmVars, hostVars, widgetVars, serverVars, managerVars, undoVars, anthVars>>
  \/ ReaderRead /\ UNCHANGED <<convVars, mcpVars, agentVars, registryVars, llmVars, hostVars, widgetVars, serverVars, managerVars, undoVars, anthVars>>
  \/ ReaderEnd /\ UNCHANGED <<convVars, mcpVars, agentVars, registryVars, llmVars, hostVars, widgetVars, serverVars, managerVars, undoVars, anthVars>>
  \/ ReaderMatch /\ UNCHANGED <<convVars, mcpVars, agentVars, registryVars, llmVars, hostVars, widgetVars, serverVars, managerVars, undoVars, anthVars>>

SpecConnect == InitConnect /\ [][NextConnect]_vars

\* the first input of the chat widget: the worker thread runs the agent
\* loop and the main thread handles the signals queued for it
InitAgent == ConvInit /\ TransportIdle /\ McpIdle /\ AgentIdle /\ RegistryIdle /\ LlmIdle /\ HostIdle /\ WidgetIdle /\ ServerIdle /\ ManagerIdle /\ UndoIdle /\ AnthropicIdle

NextAgent ==
  \/ _send_message /\ UNCHANGED <<transportVars, mcpVars, registryVars, llmVars, hostVars, widgetVars, serverVars, managerVars, undoVars, anthVars>>
  \/ SimpleStream /\ UNCHANGED <<transportVars, mcpVars, registryVars, llmVars, hostVars, widgetVars, serverVars, managerVars, undoVars, anthVars>>
  \/ StreamTurn /\ UNCHANGED <<transportVars, mcpVars, registryVars, llmVars, hostVars, widgetVars, serverVars, managerVars, undoVars, anthVars>>
  \/ StreamRaises /\ UNCHANGED <<transportVars, mcpVars, registryVars, llmVars, hostVars, widgetVars, serverVars, managerVars, undoVars, anthVars>>
  \/ Dispatch /\ UNCHANGED <<transportVars, mcpVars, registryVars, llmVars, hostVars, widgetVars, serverVars, managerVars, undoVars, anthVars>>
  \/ ReceiveResult /\ UNCHANGED <<transportVars, mcpVars, registryVars, llmVars, hostVars, widgetVars, serverVars, managerVars, undoVars, anthVars>>
  \/ WaitTimeout /\ UNCHANGED <<transportVars, mcpVars, registryVars, llmVars, hostVars, widgetVars, serverVars, managerVars, undoVars, anthVars>>
  \/ _execute_tool_call /\ UNCHANGED <<transportVars, mcpVars, registryVars, llmVars, hostVars, widgetVars, serverVars, managerVars, undoVars, anthVars>>
  \/ _on_response_finished /\ UNCHANGED <<transportVars, mcpVars, registryVars, llmVars, hostVars, widgetVars, serverVars, managerVars, undoVars, anthVars>>
  \/ _on_error /\ UNCHANGED <<transportVars, mcpVars, registryVars, llmVars, hostVars, widgetVars, serverVars, managerVars, undoVars, anthVars>>

SpecAgent == InitAgent /\ [][NextAgent]_vars

\* the next input after a completed run
InitAgentRuns == ConvAfterRun /\ TransportIdle /\ McpIdle /\ AgentIdle /\ RegistryIdle /\ LlmIdle /\ HostIdle /\ WidgetIdle /\ ServerIdle /\ ManagerIdle /\ UndoIdle /\ AnthropicIdle

NextAgentRuns ==
  \/ _send_message /\ UNCHANGED <<transportVars, mcpVars, registryVars, llmVars, hostVars, widgetVars, serverVars, managerVars, undoVars, anthVars>>
  \/ SimpleStream /\ UNCHANGED <<transportVars, mcpVars, registryVars, llmVars, hostVars, widgetVars, serverVars, managerVars, undoVars, anthVars>>
  \/ StreamTurn /\ UNCHANGED <<transportVars, mcpVars, registryVars, llmVars, hostVars, widgetVars, serverVars, managerVars, undoVars, anthVars>>
  \/ StreamRaises /\ UNCHANGED <<transportVars, mcpVars, registryVars, llmVars, hostVars, widgetVars, serverVars, managerVars, undoVars, anthVars>>
  \/ Dispatch /\ UNCHANGED <<transportVars, mcpVars, registryVars, llmVars, hostVars, widgetVars, serverVars, managerVars, undoVars, anthVars>>
  \/ ReceiveResult /\ UNCHANGED <<transportVars, mcpVars, registryVars, llmVars, hostVars, widgetVars, serverVars, managerVars, undoVars, anthVars>>
  \/ WaitTimeout /\ UNCHANGED <<transportVars, mcpVars, registryVars, llmVars, hostVars, widgetVars, serverVars, managerVars, undoVars, anthVars>>
  \/ _execute_tool_call /\ UNCHANGED <<transportVars, mcpVars, registryVars, llmVars, hostVars, widgetVars, serverVars, managerVars, undoVars, anthVars>>
  \/ _on_response_finished /\ UNCHANGED <<transportVars, mcpVars, registryVars, llmVars, hostVars, widgetVars, serverVars, managerVars, undoVars, anthVars>>
  \/ _on_error /\ UNCHANGED <<transportVars, mcpVars, registryVars, llmVars, hostVars, widgetVars, serverVars, managerVars, undoVars, anthVars>>

SpecAgentRuns == InitAgentRuns /\ [][NextAgentRuns]_vars

\* the first input, with the execution of a tool on the main thread in its
\* two steps: the worker runs while the handler of a tool does
InitAgentHost == ConvInit /\ TransportIdle /\ McpIdle /\ AgentIdle /\ RegistryIdle /\ LlmIdle /\ HostIdle /\ WidgetIdle /\ ServerIdle /\ ManagerIdle /\ UndoIdle /\ AnthropicIdle

NextAgentHost ==
  \/ _send_message /\ UNCHANGED hostVars /\ UNCHANGED <<transportVars, mcpVars, registryVars, llmVars, widgetVars, serverVars, managerVars, undoVars, anthVars>>
  \/ SimpleStream /\ UNCHANGED hostVars /\ UNCHANGED <<transportVars, mcpVars, registryVars, llmVars, widgetVars, serverVars, managerVars, undoVars, anthVars>>
  \/ StreamTurn /\ UNCHANGED hostVars /\ UNCHANGED <<transportVars, mcpVars, registryVars, llmVars, widgetVars, serverVars, managerVars, undoVars, anthVars>>
  \/ StreamRaises /\ UNCHANGED hostVars /\ UNCHANGED <<transportVars, mcpVars, registryVars, llmVars, widgetVars, serverVars, managerVars, undoVars, anthVars>>
  \/ Dispatch /\ UNCHANGED hostVars /\ UNCHANGED <<transportVars, mcpVars, registryVars, llmVars, widgetVars, serverVars, managerVars, undoVars, anthVars>>
  \/ ReceiveResult /\ UNCHANGED hostVars /\ UNCHANGED <<transportVars, mcpVars, registryVars, llmVars, widgetVars, serverVars, managerVars, undoVars, anthVars>>
  \/ WaitTimeout /\ UNCHANGED hostVars /\ UNCHANGED <<transportVars, mcpVars, registryVars, llmVars, widgetVars, serverVars, managerVars, undoVars, anthVars>>
  \/ ExecuteBegin /\ UNCHANGED <<transportVars, mcpVars, registryVars, llmVars, widgetVars, serverVars, managerVars, undoVars, anthVars>>
  \/ ExecuteEnd /\ UNCHANGED <<transportVars, mcpVars, registryVars, llmVars, widgetVars, serverVars, managerVars, undoVars, anthVars>>
  \/ MainThreadFree /\ _on_response_finished /\ UNCHANGED hostVars /\ UNCHANGED <<transportVars, mcpVars, registryVars, llmVars, widgetVars, serverVars, managerVars, undoVars, anthVars>>
  \/ MainThreadFree /\ _on_error /\ UNCHANGED hostVars /\ UNCHANGED <<transportVars, mcpVars, registryVars, llmVars, widgetVars, serverVars, managerVars, undoVars, anthVars>>

SpecAgentHost == InitAgentHost /\ [][NextAgentHost]_vars

\* the inputs of the user and the workers the widget starts for them
InitWidget == ConvInit /\ TransportIdle /\ McpIdle /\ AgentIdle /\ RegistryIdle /\ LlmIdle /\ HostIdle /\ WidgetIdle /\ ServerIdle /\ ManagerIdle /\ UndoIdle /\ AnthropicIdle

NextWidget ==
  \/ Type /\ UNCHANGED <<transportVars, mcpVars, agentVars, registryVars, llmVars, hostVars, serverVars, managerVars, undoVars, anthVars>>
  \/ _send_message_text /\ UNCHANGED <<transportVars, mcpVars, agentVars, registryVars, llmVars, hostVars, serverVars, managerVars, undoVars, anthVars>>
  \/ WorkerEmits /\ UNCHANGED <<transportVars, mcpVars, agentVars, registryVars, llmVars, hostVars, serverVars, managerVars, undoVars, anthVars>>
  \/ WorkerExits /\ UNCHANGED <<transportVars, mcpVars, agentVars, registryVars, llmVars, hostVars, serverVars, managerVars, undoVars, anthVars>>
  \/ _on_response_finished_act /\ UNCHANGED <<transportVars, mcpVars, agentVars, registryVars, llmVars, hostVars, serverVars, managerVars, undoVars, anthVars>>
  \/ _on_error_widget /\ UNCHANGED <<transportVars, mcpVars, agentVars, registryVars, llmVars, hostVars, serverVars, managerVars, undoVars, anthVars>>

SpecWidget == InitWidget /\ [][NextWidget]_vars

\* the MCP server over a registry, reading the lines of its input
InitServer == ConvInit /\ TransportIdle /\ McpIdle /\ AgentIdle /\ RegistryIdle /\ LlmIdle /\ HostIdle /\ WidgetIdle /\ ServerIdle /\ ManagerIdle /\ UndoIdle /\ AnthropicIdle

NextServer ==
  \/ srv_pc = "created" /\ register /\ UNCHANGED serverVars /\ UNCHANGED <<convVars, transportVars, mcpVars, agentVars, llmVars, hostVars, widgetVars, managerVars, undoVars, anthVars>>
  \/ ServerRun /\ UNCHANGED <<convVars, transportVars, mcpVars, agentVars, llmVars, hostVars, widgetVars, managerVars, undoVars, anthVars>>
  \/ ServerRead /\ UNCHANGED <<convVars, transportVars, mcpVars, agentVars, llmVars, hostVars, widgetVars, managerVars, undoVars, anthVars>>
  \/ ServerEof /\ UNCHANGED <<convVars, transportVars, mcpVars, agentVars, llmVars, hostVars, widgetVars, managerVars, undoVars, anthVars>>
  \/ ServerHandle /\ UNCHANGED <<convVars, transportVars, mcpVars, agentVars, llmVars, hostVars, widgetVars, managerVars, undoVars, anthVars>>

SpecServer == InitServer /\ [][NextServer]_vars

\* a manager with its clients, whose tools are registered and asked about
InitManager == ConvInit /\ TransportIdle /\ McpIdle /\ AgentIdle /\ RegistryIdle /\ LlmIdle /\ HostIdle /\ WidgetIdle /\ ServerIdle /\ ManagerIdle /\ UndoIdle /\ AnthropicIdle

NextManager ==
  \/ ManagerAddClient /\ UNCHANGED <<convVars, transportVars, mcpVars, agentVars, llmVars, hostVars, widgetVars, serverVars, undoVars, anthVars>>
  \/ register_tools_into /\ UNCHANGED <<convVars, transportVars, mcpVars, agentVars, llmVars, hostVars, widgetVars, serverVars, undoVars, anthVars>>
  \/ IsMcpTool /\ UNCHANGED <<convVars, transportVars, mcpVars, agentVars, llmVars, hostVars, widgetVars, serverVars, undoVars, anthVars>>
  \/ RegisterBuiltins /\ UNCHANGED <<convVars, transportVars, mcpVars, agentVars, llmVars, hostVars, widgetVars, serverVars, undoVars, anthVars>>

SpecManager == InitManager /\ [][NextManager]_vars

\* invocations of the host tool handlers and of execute_code, one after
\* another on the main thread
InitUndo == ConvInit /\ TransportIdle /\ McpIdle /\ AgentIdle /\ RegistryIdle /\ LlmIdle /\ HostIdle /\ WidgetIdle /\ ServerIdle /\ ManagerIdle /\ UndoIdle /\ AnthropicIdle

NextUndo ==
  \/ UndoBegin /\ UNCHANGED <<convVars, transportVars, mcpVars, agentVars, registryVars, llmVars, hostVars, widgetVars, serverVars, managerVars, anthVars>>
  \/ UndoOperate /\ UNCHANGED <<convVars, transportVars, mcpVars, agentVars, registryVars, llmVars, hostVars, widgetVars, serverVars, managerVars, anthVars>>
  \/ UndoRecompute /\ UNCHANGED <<convVars, transportVars, mcpVars, agentVars, registryVars, llmVars, hostVars, widgetVars, serverVars, managerVars, anthVars>>
  \/ UndoCommit /\ UNCHANGED <<convVars, transportVars, mcpVars, agentVars, registryVars, llmVars, hostVars, widgetVars, serverVars, managerVars, anthVars>>
  \/ UndoAbort /\ UNCHANGED <<convVars, transportVars, mcpVars, agentVars, registryVars, llmVars, hostVars, widgetVars, serverVars, managerVars, anthVars>>

SpecUndo == InitUndo /\ [][NextUndo]_vars

\* one response streamed with tools, in either dialect
InitStreamDialects == ConvInit /\ TransportIdle /\ McpIdle /\ AgentIdle /\ RegistryIdle /\ LlmIdle /\ HostIdle /\ WidgetIdle /\ ServerIdle /\ ManagerIdle /\ UndoIdle /\ (\E d \in ApiStyles : AnthropicStart(d))

NextStreamDialects ==
  \/ dialect = "openai" /\ StreamChunk /\ UNCHANGED anthVars /\ UNCHANGED <<convVars, transportVars, mcpVars, agentVars, registryVars, hostVars, widgetVars, serverVars, managerVars, undoVars>>
  \/ AnthropicStreamChunk /\ UNCHANGED <<convVars, transportVars, mcpVars, agentVars, registryVars, hostVars, widgetVars, serverVars, managerVars, undoVars>>
  \/ StreamSentinel /\ UNCHANGED anthVars /\ UNCHANGED <<convVars, transportVars, mcpVars, agentVars, registryVars, hostVars, widgetVars, serverVars, managerVars, undoVars>>
  \/ StreamEnd /\ UNCHANGED anthVars /\ UNCHANGED <<convVars, transportVars, mcpVars, agentVars, registryVars, hostVars, widgetVars, serverVars, managerVars, undoVars>>
  \/ StreamRaises2 /\ UNCHANGED anthVars /\ UNCHANGED <<convVars, transportVars, mcpVars, agentVars, registryVars, hostVars, widgetVars, serverVars, managerVars, undoVars>>

SpecStreamDialects == InitStreamDialects /\ [][NextStreamDialects]_vars

\* the first input, with the controls of the widget that work during a
\* run: "Send" returns at once (line 366, a step that changes nothing) and
\* "+ New Chat" starts a new conversation
InitAgentControls == ConvInit /\ TransportIdle /\ McpIdle /\ AgentIdle /\ RegistryIdle /\ LlmIdle /\ HostIdle /\ WidgetIdle /\ ServerIdle /\ ManagerIdle /\ UndoIdle /\ AnthropicIdle

NextAgentControls ==
  \/ _send_message /\ UNCHANGED <<transportVars, mcpVars, registryVars, llmVars, hostVars, widgetVars, serverVars, managerVars, undoVars, anthVars>>
  \/ SimpleStream /\ UNCHANGED <<transportVars, mcpVars, registryVars, llmVars, hostVars, widgetVars, serverVars, managerVars, undoVars, anthVars>>
  \/ StreamTurn /\ UNCHANGED <<transportVars, mcpVars, registryVars, llmVars, hostVars, widgetVars, serverVars, managerVars, undoVars, anthVars>>
  \/ StreamRaises /\ UNCHANGED <<transportVars, mcpVars, registryVars, llmVars, hostVars, widgetVars, serverVars, managerVars, undoVars, anthVars>>
  \/ Dispatch /\ UNCHANGED <<transportVars, mcpVars, registryVars, llmVars, hostVars, widgetVars, serverVars, managerVars, undoVars, anthVars>>
  \/ ReceiveResult /\ UNCHANGED <<transportVars, mcpVars, registryVars, llmVars, hostVars, widgetVars, serverVars, managerVars, undoVars, anthVars>>
  \/ WaitTimeout /\ UNCHANGED <<transportVars, mcpVars, registryVars, llmVars, hostVars, widgetVars, serverVars, managerVars, undoVars, anthVars>>
  \/ _execute_tool_call /\ UNCHANGED <<transportVars, mcpVars, registryVars, llmVars, hostVars, widgetVars, serverVars, managerVars, undoVars, anthVars>>
  \/ _on_response_finished /\ UNCHANGED <<transportVars, mcpVars, registryVars, llmVars, hostVars, widgetVars, serverVars, managerVars, undoVars, anthVars>>
  \/ _on_error /\ UNCHANGED <<transportVars, mcpVars, registryVars, llmVars, hostVars, widgetVars, serverVars, managerVars, undoVars, anthVars>>
  \/ _new_chat /\ UNCHANGED <<transportVars, mcpVars, registryVars, llmVars, hostVars, widgetVars, serverVars, managerVars, undoVars, anthVars>>

SpecAgentControls == InitAgentControls /\ [][NextAgentControls]_vars

\* a tool registry: tools are registered and execute is called with any
\* name and any parameters
InitRegistry == ConvInit /\ TransportIdle /\ McpIdle /\ AgentIdle /\ RegistryIdle /\ LlmIdle /\ HostIdle /\ WidgetIdle /\ ServerIdle /\ ManagerIdle /\ UndoIdle /\ AnthropicIdle

NextRegistry ==
  \/ register /\ UNCHANGED <<convVars, transportVars, mcpVars, agentVars, llmVars, hostVars, widgetVars, serverVars, managerVars, undoVars, anthVars>>
  \/ Execute /\ UNCHANGED <<convVars, transportVars, mcpVars, agentVars, llmVars, hostVars, widgetVars, serverVars, managerVars, undoVars, anthVars>>

SpecRegistry == InitRegistry /\ [][NextRegistry]_vars

\* one response streamed in the OpenAI dialect with tools
InitStream == ConvInit /\ TransportIdle /\ McpIdle /\ AgentIdle /\ RegistryIdle /\ LlmIdle /\ HostIdle /\ WidgetIdle /\ ServerIdle /\ ManagerIdle /\ UndoIdle /\ AnthropicIdle

NextStream ==
  \/ StreamChunk /\ UNCHANGED <<convVars, transportVars, mcpVars, agentVars, registryVars, hostVars, widgetVars, serverVars, managerVars, undoVars, anthVars>>
  \/ StreamSentinel /\ UNCHANGED <<convVars, transportVars, mcpVars, agentVars, registryVars, hostVars, widgetVars, serverVars, managerVars, undoVars, anthVars>>
  \/ StreamEnd /\ UNCHANGED <<convVars, transportVars, mcpVars, agentVars, registryVars, hostVars, widgetVars, serverVars, managerVars, undoVars, anthVars>>

SpecStream == InitStream /\ [][NextStream]_vars

\* calls of send and send_with_tools in both dialects
InitSend == ConvInit /\ TransportIdle /\ McpIdle /\ AgentIdle /\ RegistryIdle /\ LlmIdle /\ HostIdle /\ WidgetIdle /\ ServerIdle /\ ManagerIdle /\ UndoIdle /\ AnthropicIdle

NextSend ==
  \/ Send /\ UNCHANGED <<convVars, transportVars, mcpVars, agentVars, registryVars, hostVars, widgetVars, serverVars, managerVars, undoVars, anthVars>>
  \/ SendWithTools /\ UNCHANGED <<convVars, transportVars, mcpVars, agentVars, registryVars, hostVars, widgetVars, serverVars, managerVars, undoVars, anthVars>>

SpecSend == InitSend /\ [][NextSend]_vars

(***************************************************************************)
(* Properties of the client transport                                      *)
(***************************************************************************)
\* r is the server's answer to the request of id i, which caller c sent
IsAnswerTo(r, i, c) ==
  /\ r.kind \in {"result", "error"}
  /\ r.id = i
  /\ \E k \in 1..Len(wire_in) :
       /\ wire_in[k] = make_request(tmethod[c], c, i)
       /\ r \in AnswersTo(wire_in[k])

\* C2: whatever the interleaving of the callers, the server and the reader
\* thread, a response that send_request returns is the server's answer to
\* the request of that very call (the id matches), a waiter that was woken
\* finds the answer to its own request in its entry, and no answer is
\* returned to two calls.
C2_MatchedDelivery ==
  /\ \A i \in DOMAIN outcomes :
       outcomes[i].how = "return" =>
         \/ outcomes[i].value = TransportStopped
         \/ IsAnswerTo(outcomes[i].value, i, outcomes[i].by)
  /\ \A c \in Callers :
       (tpc[c] = "wait" /\ event[c] /\ treq[c] \in DOMAIN pending) =>
         \/ pending[treq[c]].response = TransportStopped
         \/ IsAnswerTo(pending[treq[c]].response, treq[c], c)
  /\ \A i, j \in DOMAIN outcomes :
       (i # j /\ outcomes[i].how = "return" /\ outcomes[j].how = "return")
         => outcomes[i].value # outcomes[j].value

\* the call of a later request has returned its answer while the answer to
\* an earlier request, written after it, is still in the pipe and its
\* waiter waits
C2_Witness ==
  \E i, j \in DOMAIN outcomes \cup DOMAIN pending :
    /\ i < j
    /\ j \in DOMAIN outcomes
    /\ outcomes[j].how = "return"
    /\ i \in DOMAIN pending
    /\ tpc[pending[i].owner] = "wait"
    /\ ~event[pending[i].owner]
    /\ wire_out # <<>>
    /\ wire_out[1].id = i

\* C3 as claimed: a send_request call that was waiting when stop() resolved
\* the pending requests returns the "Transport stopped" error response.
C3_StopReturnsError ==
  \A i \in unblocked :
    i \in DOMAIN outcomes =>
      (outcomes[i].how = "return" /\ outcomes[i].value = TransportStopped)

(***************************************************************************)
(* Properties of get_messages_for_api                                      *)
(***************************************************************************)
\* the number of messages of the conversation left out of the answer
Cut == Len(messages) - Len(api_result)

\* the answer is the conversion of the last Len(api_result) messages
AnswerIsSuffix ==
  /\ Len(api_result) <= Len(messages)
  /\ api_result = ToApiFormat(SubSeq(messages, Cut + 1, Len(messages)),
                              api_args.api_style)

\* messages a .. a+n are an assistant message with n tool calls and the n
\* tool results that follow it
IsToolGroup(a, n) ==
  /\ a \in 1..Len(messages)
  /\ a + n <= Len(messages)
  /\ messages[a].role = "assistant"
  /\ Len(messages[a].tool_calls) = n
  /\ \A k \in 1..n : messages[a + k].role = "tool_result"

\* C1: for every conversation, budget and dialect, the answer of
\* get_messages_for_api is the conversion of a suffix of the conversation,
\* and an assistant message with N tool calls followed by N tool results is
\* in it with all its N+1 messages or with none.
C1_GroupAtomic ==
  api_called =>
    /\ AnswerIsSuffix
    /\ \A a \in 1..Len(messages), n \in 0..MaxCallsPerMsg :
         IsToolGroup(a, n) => (Cut < a \/ Cut >= a + n)

\* a truncated answer that holds a whole group of two or more messages
C1_Witness ==
  /\ api_called
  /\ Cut >= 1
  /\ \E a \in 1..Len(messages), n \in 1..MaxCallsPerMsg :
       IsToolGroup(a, n) /\ Cut < a

\* C7: a non-empty answer of get_messages_for_api starts with a message of
\* role user, for every conversation, budget and dialect.
C7_FirstIsUser ==
  (api_called /\ api_result # <<>>) => api_result[1].role = "user"

\* the whole conversation fitted the budget and its leading non-user
\* messages were dropped
C7_Witness ==
  /\ api_called
  /\ api_result # <<>>
  /\ messages[1].role # "user"
  /\ SumChars(messages) <= api_args.max_chars

\* the most recent message of the conversation, converted, ends the answer
NewestKept ==
  /\ api_result # <<>>
  /\ api_result[Len(api_result)] =
       ToApiFormat(<<messages[Len(messages)]>>, api_args.api_style)[1]

\* C8 as claimed: for every non-empty conversation and every budget the
\* answer holds the most recent message.
C8_NewestAlwaysKept ==
  (api_called /\ messages # <<>>) => NewestKept

\* C8 as amended: the answer holds the most recent message whenever that
\* message has role user, also when it alone exceeds the budget, and
\* whenever the answer is not empty.
C8_NewestKeptIfUser ==
  (api_called /\ messages # <<>>
     /\ (messages[Len(messages)].role = "user" \/ api_result # <<>>))
  => NewestKept

\* a newest user message longer than the whole budget is the answer
C8_Witness ==
  /\ api_called
  /\ Len(messages) >= 2
  /\ messages[Len(messages)].role = "user"
  /\ Len(messages[Len(messages)].content) > api_args.max_chars
  /\ Len(api_result) = 1

(***************************************************************************)
(* The handshake of MCPClient.connect                                      *)
(***************************************************************************)
\* an initialize call of the client being connected returned a response
\* without error
InitializeSucceeded ==
  \E i \in CallsOf("initialize") :
    outcomes[i].how = "return" /\ ~HasError(outcomes[i].value)

\* C9: the handshake of connect() has a fixed order: the initialized
\* notification is written only after initialize returned a success
\* response, every tools/list request is written after the notification,
\* and the client is marked connected only after the tools/list call
\* returned.
C9_HandshakeOrder ==
  /\ Notifications # {} => InitializeSucceeded
  /\ \A k \in RequestsOf("tools/list") : \E n \in Notifications : n < k
  /\ cl_connected =>
       \E i \in CallsOf("tools/list") : outcomes[i].how = "return"

\* a client is connected with tools after the whole handshake was written
C9_Witness ==
  /\ cl_connected
  /\ cl_tools # <<>>
  /\ Notifications # {}
  /\ RequestsOf("tools/list") # {}

\* C10: once initialize is answered with an error response, connect()
\* aborts: no initialized notification and no tools/list request is
\* written, connect does not go on to a later step, the client is never
\* connected, and connect_all does not keep the client.
C10_InitializeErrorAborts ==
  /\ InitializeRefused =>
       /\ Notifications = {}
       /\ RequestsOf("tools/list") = {}
       /\ ~cl_connected
       /\ ~is_connected
       /\ cpc \in {"await_initialize", "failed", "loop", "done", "raised"}
  /\ \A k \in 1..Len(attempts) :
       attempts[k].refused => ~attempts[k].kept /\ ~attempts[k].connected
  /\ \A n \in DOMAIN clients : ~attempts[clients[n]].refused

\* connect_all went on after an attempt whose initialize was refused
C10_Witness ==
  \E k \in 1..Len(attempts) : attempts[k].refused /\ ~attempts[k].kept

\* a tools/list call of the client being connected returned an error
\* response
ToolsListRefused ==
  \E i \in CallsOf("tools/list") :
    outcomes[i].how = "return" /\ HasError(outcomes[i].value)

\* the attempt that ended last is the one of the client made last
LastAttemptEnded == cpc \in {"loop", "done", "raised"} /\ attempts # <<>>

\* C11 as claimed: an error response to tools/list aborts the connection
\* attempt: connect does not go on to mark the client connected, the
\* client is not connected and connect_all does not keep it.
C11_ToolsListErrorAborts ==
  ToolsListRefused =>
    /\ ~cl_connected
    /\ cpc \notin {"mark_connected", "keep"}
    /\ LastAttemptEnded => ~attempts[Len(attempts)].kept

\* C12 as claimed: no failure while handling an enabled config ends
\* connect_all before its loop has taken every config, and the manager
\* holds exactly the clients whose connect succeeded: each name maps to
\* the last attempt of that name that was kept, and an attempt is kept
\* exactly when its connect returned.
C12_ConnectAllContinues ==
  /\ cpc # "raised"
  /\ \A k \in 1..Len(attempts) : attempts[k].kept = attempts[k].connected
  /\ \A n \in DOMAIN clients :
       /\ attempts[clients[n]].name = n
       /\ attempts[clients[n]].kept
       /\ \A k \in 1..Len(attempts) :
            (attempts[k].name = n /\ attempts[k].kept) => k <= clients[n]
  /\ \A k \in 1..Len(attempts) :
       attempts[k].kept => attempts[k].name \in DOMAIN clients

(***************************************************************************)
(* The agent loop of one user input                                        *)
(***************************************************************************)
\* the ids of the tool_call_end events among the events, in their order
EndedIds(events) ==
  LET ends == SelectSeq(events, LAMBDA ev : ev.type = "tool_call_end")
  IN [k \in 1..Len(ends) |-> ends[k].tool_call.id]

\* the ids of the tool_call_end events of the first n streams
RECURSIVE EndedUpTo(_)
EndedUpTo(n) ==
  IF n = 0 THEN <<>> ELSE EndedUpTo(n - 1) \o EndedIds(stream_log[n].events)

\* stream k delivered its events and at least one tool call
ReturnedToolCalls(k) ==
  ~stream_log[k].failed /\ EndedIds(stream_log[k].events) # <<>>

\* stream k delivered its events and no tool call
ReturnedNoToolCall(k) ==
  ~stream_log[k].failed /\ EndedIds(stream_log[k].events) = <<>>

\* the text ends with the notice
EndsWithNotice(text) ==
  /\ Len(text) >= Len(LimitNotice)
  /\ SubSeq(text, Len(text) - Len(LimitNotice) + 1, Len(text)) = LimitNotice

\* the streaming turns whose tool calls have all been executed
ExecutedRounds == {dispatched[k].turn : k \in 1..Len(dispatched)}

\* C4: the agent loop never starts an 11th streaming turn and never
\* executes a tool call of an 11th round; when every turn of the model
\* returned at least one tool call, the loop has ended after exactly
\* MaxToolTurns streaming turns and MaxToolTurns rounds of executions, by
\* emitting once the full response with the limit notice at its end.
C4_TurnBudget ==
  /\ Len(stream_log) <= MaxToolTurns
  /\ Len(_tool_results) <= MaxToolTurns
  /\ \A k \in 1..Len(dispatched) : dispatched[k].turn <= MaxToolTurns
  /\ (/\ wpc = "finished"
      /\ stream_log # <<>>
      /\ \A k \in 1..Len(stream_log) : ReturnedToolCalls(k))
     => /\ Len(stream_log) = MaxToolTurns
        /\ Len(_tool_results) = MaxToolTurns
        /\ ExecutedRounds = 1..MaxToolTurns
        /\ responses = <<_full_response>>
        /\ EndsWithNotice(_full_response)
  /\ \A k \in 1..Len(responses) :
       EndsWithNotice(responses[k]) => Len(_tool_results) = MaxToolTurns

\* the loop ran out of turns with a tool call on every turn
C4_Witness ==
  /\ wpc = "finished"
  /\ Len(stream_log) = MaxToolTurns
  /\ \A k \in 1..Len(stream_log) : ReturnedToolCalls(k)
  /\ main_queue = <<>>
  /\ Len(messages) > MaxToolTurns

\* C5: a streaming turn without tool calls is the last one: after tool
\* calls on the first k turns (k below MaxToolTurns) and none on turn
\* k + 1 the loop has made exactly k + 1 streaming turns and k rounds of
\* executions and has emitted the response, without the limit notice,
\* exactly once; the response is never emitted twice, and once the main
\* thread has handled it the widget is no longer loading.
C5_StopsWithoutToolCalls ==
  /\ Len(responses) <= 1
  /\ \A k \in 1..Len(stream_log) :
       ReturnedNoToolCall(k) =>
         /\ k = Len(stream_log)
         /\ k - 1 < MaxToolTurns
         /\ wpc = "finished"
         /\ Len(_tool_results) = k - 1
         /\ ExecutedRounds = 1..(k - 1)
         /\ responses = <<_full_response>>
         /\ ~EndsWithNotice(_full_response)
  /\ (wpc = "finished" /\ main_queue = <<>>) => ~loading

\* the model asked for tools on two turns and for none on the third, and
\* the main thread has handled the response
C5_Witness ==
  /\ Len(stream_log) = 3
  /\ ReturnedToolCalls(1)
  /\ ReturnedToolCalls(2)
  /\ ReturnedNoToolCall(3)
  /\ wpc = "finished"
  /\ main_queue = <<>>
  /\ ~loading

\* the ids of the tool calls of an assistant message of the worker
AssistantCallIds(style, m) ==
  IF style = "anthropic"
  THEN LET uses == SelectSeq(m.content, LAMBDA b : b.type = "tool_use")
       IN [k \in 1..Len(uses) |-> uses[k].id]
  ELSE [k \in 1..Len(m.tool_calls) |-> m.tool_calls[k].id]

\* the ids of the tool results among the messages the worker added to the
\* one message it was started with
WorkerResultIds ==
  LET added == SubSeq(w_messages, 2, Len(w_messages))
      results == SelectSeq(added, LAMBDA m : m.role # "assistant")
  IN [k \in 1..Len(results) |-> ResultId(w_api_style, results[k])]

\* the ids of the tool results in the conversation
HistoryResultIds ==
  LET results == SelectSeq(messages, LAMBDA m : m.role = "tool_result")
  IN [k \in 1..Len(results) |-> results[k].tool_call_id]

IsPrefix(p, q) == Len(p) <= Len(q) /\ p = SubSeq(q, 1, Len(p))

\* C6: the tool calls of a turn are handed to the main thread one after
\* another in the order of their tool_call_end events; the tool result
\* messages of the worker follow the assistant message of their turn in
\* that order, the i-th carrying the id of the i-th call, and so do the
\* tool results appended to the conversation.
C6_ToolCallOrder ==
  /\ wpc \in {"dispatch", "wait"} =>
       /\ [k \in 1..Len(w_tool_calls) |-> w_tool_calls[k].id]
            = EndedIds(stream_log[Len(stream_log)].events)
       /\ \A k \in 1..Len(tool_result_messages) :
            ResultId(w_api_style, tool_result_messages[k]) = w_tool_calls[k].id
  /\ [k \in 1..Len(dispatched) |-> dispatched[k].id]
       = SubSeq(EndedUpTo(Len(stream_log)), 1, Len(dispatched))
  /\ \A k \in 1..Len(dispatched) - 1 :
       dispatched[k].turn <= dispatched[k + 1].turn
  /\ IsPrefix(WorkerResultIds, EndedUpTo(Len(stream_log)))
  /\ \A a \in 2..Len(w_messages) - 1 :
       w_messages[a].role = "assistant" =>
         LET ids == AssistantCallIds(w_api_style, w_messages[a])
         IN \A k \in 1..Len(ids) :
              /\ a + k <= Len(w_messages)
              /\ w_messages[a + k].role # "assistant"
              /\ ResultId(w_api_style, w_messages[a + k]) = ids[k]
  /\ \A a \in 1..Len(messages) :
       messages[a].role = "assistant" =>
         \A k \in 1..Len(messages[a].tool_calls) :
           /\ a + k <= Len(messages)
           /\ messages[a + k].role = "tool_result"
           /\ messages[a + k].tool_call_id = messages[a].tool_calls[k].id
  /\ HistoryResultIds # <<>> => HistoryResultIds = WorkerResultIds

\* a turn of two tool calls whose second call ended first has reached the
\* conversation with its results
C6_Witness ==
  \E a \in 1..Len(messages) :
    /\ messages[a].role = "assistant"
    /\ Len(messages[a].tool_calls) >= 2
    /\ messages[a].tool_calls[1].id > messages[a].tool_calls[2].id
    /\ a + 2 <= Len(messages)
    /\ messages[a + 2].role = "tool_result"

(***************************************************************************)
(* ToolRegistry.execute                                                    *)
(***************************************************************************)
\* C13 as claimed: execute returns a ToolResult and raises nothing for
\* every tool name and all parameters: an unknown name gives success false,
\* parameters that do not fit give success false with the "Invalid
\* parameters" error, and an exception raised in the handler gives success
\* false with the message of the exception in the error.
C13_ExecuteNeverRaises ==
  exec_outcome # None =>
    /\ exec_outcome.how = "return"
    /\ exec_args.name \notin DOMAIN _tools => ~exec_outcome.value.success
    /\ (exec_args.name \in DOMAIN _tools /\ exec_args.params # "fits") =>
         /\ ~exec_outcome.value.success
         /\ exec_outcome.value.error[1] = "Invalid parameters for "
    /\ (/\ exec_args.name \in DOMAIN _tools
        /\ CallHandler(_tools[exec_args.name], exec_args.params).how = "raise")
       => LET exc == CallHandler(_tools[exec_args.name], exec_args.params).value
          IN /\ ~exec_outcome.value.success
             /\ SubSeq(exec_outcome.value.error,
                       Len(exec_outcome.value.error) - Len(exc.message) + 1,
                       Len(exec_outcome.value.error)) = exc.message

(***************************************************************************)
(* The agent loop and failures                                             *)
(***************************************************************************)
\* the result _execute_tool_on_main_thread returns when the worker leaves
\* its wait: the pending result, or the timeout error when there is none
TakenResult ==
  IF _pending_result # None THEN _pending_result ELSE ToolTimedOut

\* the worker leaves the wait for the result of a tool call
ResultTaken == wpc = "wait" /\ wpc' # "wait"

\* C14: a tool call whose result has success false does not end the agent
\* loop: "Error: " and the error text are recorded as the content of the
\* tool result of that call; if the turn has more tool calls the next one is
\* dispatched; after the last one the results of the turn are appended to
\* the messages and the next streaming turn starts (within the limit of
\* turns, after which the loop ends as after a successful call).
C14_FailedCallGoesOn ==
  [][(ResultTaken /\ ~TakenResult.success) =>
       LET tc == w_tool_calls[tc_idx]
           n == Len(tool_result_messages')
       IN /\ n = tc_idx
          /\ SubSeq(tool_result_messages', 1, n - 1) = tool_result_messages
          /\ ResultId(w_api_style, tool_result_messages'[n]) = tc.id
          /\ ResultContent(w_api_style, tool_result_messages'[n])
               = <<"Error: ">> \o TakenResult.error
          /\ tc_idx < Len(w_tool_calls) =>
               /\ wpc' = "dispatch"
               /\ tc_idx' = tc_idx + 1
          /\ tc_idx = Len(w_tool_calls) =>
               /\ w_messages' = w_messages \o tool_result_messages'
               /\ LoopContinues(turn + 1) => wpc' = "stream"
               /\ ~LoopContinues(turn + 1) =>
                    responses' = <<_full_response \o LimitNotice>>
     ]_vars

\* the first of the two tool calls of a turn failed, the second one was
\* executed and the next streaming turn has started with both results at
\* the end of the messages
C14_Witness ==
  /\ wpc = "stream"
  /\ turn >= 1
  /\ Len(_tool_results[turn].results) = 2
  /\ _tool_results[turn].results[1].content[1] = "Error: "
  /\ _tool_results[turn].results[2].content[1] = "out"
  /\ Len(w_messages) >= 2
  /\ ResultContent(w_api_style, w_messages[Len(w_messages) - 1])
       = _tool_results[turn].results[1].content
  /\ ResultContent(w_api_style, w_messages[Len(w_messages)])
       = _tool_results[turn].results[2].content

\* the streaming turns in which the client raised
FailedTurns == {k \in 1..Len(stream_log) : stream_log[k].failed}

\* C15: when the LLM client raises during a streaming turn, the run is
\* aborted: that turn is the last streaming turn, no tool call is
\* dispatched in it or after it, error_occurred is emitted (it is queued
\* for the main thread or was handled by _on_error), and response_finished
\* is not emitted.
C15_StreamErrorAborts ==
  \A k \in FailedTurns :
    /\ k = Len(stream_log)
    /\ wpc = "finished"
    /\ \A j \in 1..Len(dispatched) : dispatched[j].turn < k
    /\ \/ \E i \in 1..Len(main_queue) : main_queue[i].sig = "error_occurred"
       \/ ~loading
    /\ responses = <<>>
    /\ \A i \in 1..Len(main_queue) : main_queue[i].sig # "response_finished"

\* the client raised in the second streaming turn, after the tool call of
\* the first turn was executed, and the main thread has handled the error
C15_Witness ==
  /\ Len(stream_log) = 2
  /\ stream_log[2].failed
  /\ Len(dispatched) = 1
  /\ main_queue = <<>>
  /\ ~loading

\* the run of the first input was abandoned from outside: the user asked
\* for a new conversation while the worker was running
RunAbandoned == loading /\ messages = <<>>

\* C16 as claimed: the agent loop can be cancelled from outside between
\* any two of its states: after the request the loop performs no further
\* streaming turn and dispatches no tool call, and no text or tool result
\* of the cancelled run is appended to the conversation.
C16_CancelStopsLoop ==
  [][RunAbandoned =>
       /\ stream_log' = stream_log
       /\ dispatched' = dispatched
       /\ messages' = messages]_vars

(***************************************************************************)
(* The conversation after agent runs                                       *)
(***************************************************************************)
\* message i of the conversation is a tool result that follows, with only
\* tool results in between, an assistant message that has a tool call of
\* its id
ResultHasCall(i) ==
  \E a \in 1..(i - 1) :
    /\ messages[a].role = "assistant"
    /\ \A j \in (a + 1)..(i - 1) : messages[j].role = "tool_result"
    /\ \E c \in 1..Len(messages[a].tool_calls) :
         messages[a].tool_calls[c].id = messages[i].tool_call_id

\* message i of the conversation is an assistant message that is followed
\* by exactly one tool result for each of its tool calls, in call order
CallsHaveResults(i) ==
  LET n == Len(messages[i].tool_calls)
  IN /\ i + n <= Len(messages)
     /\ \A k \in 1..n :
          /\ messages[i + k].role = "tool_result"
          /\ messages[i + k].tool_call_id = messages[i].tool_calls[k].id
     /\ i + n < Len(messages) => messages[i + n + 1].role # "tool_result"

\* C17: in the conversation, every tool result is preceded, with only tool
\* results in between, by an assistant message whose tool calls contain its
\* id, and every assistant message with tool calls is followed by exactly
\* one tool result per call, in call order.
C17_HistoryPaired ==
  \A i \in 1..Len(messages) :
    /\ messages[i].role = "tool_result" => ResultHasCall(i)
    /\ (messages[i].role = "assistant" /\ messages[i].tool_calls # <<>>) =>
         CallsHaveResults(i)

\* a second run is completed after the earlier one: it had two turns with
\* tool calls, one of them with two calls, and its messages are in the
\* conversation after those of the earlier run
C17_Witness ==
  /\ wpc = "finished"
  /\ ~loading
  /\ Len(_tool_results) = 2
  /\ Len(messages) > Len(EarlierRun) + 5
  /\ \E i \in (Len(EarlierRun) + 1)..Len(messages) :
       Len(messages[i].tool_calls) = 2

(***************************************************************************)
(* The OpenAI-compatible stream with tools                                 *)
(***************************************************************************)
\* the tool-call entries of the chunks received, in arrival order
RECURSIVE DeltasOf(_)
DeltasOf(chunks) ==
  IF chunks = <<>> THEN <<>>
  ELSE Head(chunks).tool_calls \o DeltasOf(Tail(chunks))

\* the tool-call indices opened during the stream
OpenedIndices ==
  {DeltasOf(chunks_seen)[k].index : k \in 1..Len(DeltasOf(chunks_seen))}

\* the concatenation, in arrival order, of the argument fragments received
\* for index i
RECURSIVE Concatenation(_, _)
Concatenation(deltas, i) ==
  IF deltas = <<>> THEN <<>>
  ELSE (IF Head(deltas).index = i THEN Head(deltas).arguments ELSE <<>>)
         \o Concatenation(Tail(deltas), i)

\* the tool_call_end events yielded
EndEvents == SelectSeq(yielded, LAMBDA ev : ev.type = "tool_call_end")

\* C18 as claimed: when the stream has ended, by a finish_reason
\* tool_calls or stop, by the [DONE] sentinel or by the end of the response,
\* one tool_call_end event was yielded for every tool-call index opened
\* during the stream, in ascending order of the indices, and done was
\* yielded once, after them.
C18_EndsForAllOpened ==
  stream_pc = "returned" =>
    LET order == Sorted(OpenedIndices)
    IN /\ Len(EndEvents) = Len(order)
       /\ \A k \in 1..Len(EndEvents) :
            /\ k <= Len(order)
            /\ EndEvents[k].tool_call.id = pending_tools[order[k]].id
       /\ yielded # <<>>
       /\ yielded[Len(yielded)].type = "done"
       /\ \A k \in 1..(Len(yielded) - 1) : yielded[k].type # "done"

\* the object a text of arguments stands for: its parse, and the empty
\* object for a text that is empty or is no JSON
ArgumentsOfText(text) ==
  IF text = <<>> \/ json_loads(text).how = "raise" THEN EmptyObject
  ELSE json_loads(text).value

\* C19: when finish_reason tool_calls ends the stream, the arguments of the
\* tool_call_end event of each index are the parse of the concatenation, in
\* arrival order, of the argument fragments received for that index,
\* however the text was split into fragments; an empty or unparseable
\* concatenation gives the empty object.
C19_ArgumentsOfConcatenation ==
  (stream_pc = "returned" /\ ended_by = "tool_calls") =>
    LET order == Sorted(OpenedIndices)
    IN /\ Len(EndEvents) = Len(order)
       /\ \A k \in 1..Len(order) :
            EndEvents[k].tool_call.arguments
              = ArgumentsOfText(Concatenation(DeltasOf(chunks_seen), order[k]))

\* finish_reason tool_calls ended a stream in which the text of the
\* arguments of a call arrived in two fragments, with a fragment of another
\* call in between, and the call ends with the parsed object
C19_Witness ==
  /\ stream_pc = "returned"
  /\ ended_by = "tool_calls"
  /\ Len(chunks_seen) = 3
  /\ \A k \in 1..3 : Len(chunks_seen[k].tool_calls) = 1
  /\ chunks_seen[1].tool_calls[1].index = 1
  /\ chunks_seen[1].tool_calls[1].arguments = <<ArgHead>>
  /\ chunks_seen[2].tool_calls[1].index = 0
  /\ chunks_seen[2].tool_calls[1].arguments = <<ArgTail>>
  /\ chunks_seen[3].tool_calls[1].index = 1
  /\ chunks_seen[3].tool_calls[1].arguments = <<ArgTail>>
  /\ Len(EndEvents) = 2
  /\ EndEvents[1].tool_call.arguments = EmptyObject
  /\ EndEvents[2].tool_call.arguments = ParsedArgText

(***************************************************************************)
(* send and send_with_tools                                                *)
(***************************************************************************)
\* the response body lacks a field the dialect expects: choices, message
\* or content in the OpenAI dialect, content in the Anthropic dialect
LacksExpectedField(api_style, data) ==
  IF api_style = "anthropic" THEN ~Has(data, "content")
  ELSE \/ ~Has(data, "choices")
       \/ /\ data.choices # <<>>
          /\ \/ ~Has(data.choices[1], "message")
             \/ ~Has(data.choices[1].message, "content")

\* C20 as claimed: in both dialects send and send_with_tools raise the
\* bad-response-format error, which carries the response body, whenever
\* the body lacks an expected field (choices, message or content); they
\* return no value made of defaults.
C20_MissingFieldRaises ==
  (send_outcome # None
     /\ LacksExpectedField(send_args.api_style, send_args.data)) =>
    /\ send_outcome.how = "raise"
    /\ send_outcome.value.class = "LLMError"
    /\ send_outcome.value.payload = send_args.data

(***************************************************************************)
(* Timeouts of the client transport                                        *)
(***************************************************************************)
\* the requests whose call of send_request raised TimeoutError
TimedOutRequests ==
  {i \in DOMAIN outcomes :
     outcomes[i].how = "raise" /\ outcomes[i].value.kind = "TimeoutError"}

\* C21: when send_request raises the timeout condition for a request, the
\* pending entry of the request is removed, and a response carrying its id
\* that arrives later is discarded: it is stored in no pending entry and
\* no call, of this or of another request, returns it.
C21_TimeoutDiscardsLateResponse ==
  \A i \in TimedOutRequests :
    /\ i \notin DOMAIN pending
    /\ \A j \in DOMAIN pending :
         pending[j].response # None => pending[j].response.id # i
    /\ \A j \in DOMAIN outcomes :
         outcomes[j].how = "return" => outcomes[j].value.id # i

\* the call of a request timed out, the server answered it afterwards and
\* the reader has read and matched that answer, while the request of the
\* other caller still waits for its own answer
C21_Witness ==
  \E i \in TimedOutRequests :
    /\ i \in answered
    /\ wire_out = <<>>
    /\ rpc = "loop"
    /\ \E j \in DOMAIN pending :
         /\ j # i
         /\ tpc[pending[j].owner] = "wait"
         /\ pending[j].response = None

(***************************************************************************)
(* The timeout of a tool dispatch                                          *)
(***************************************************************************)
\* the wait of the worker ends without a result of the main thread
WaitTimedOut == wpc = "wait" /\ wpc' # "wait" /\ _pending_result = None

\* the signals queued by a step
NewSignals == SubSeq(main_queue', Len(main_queue) + 1, Len(main_queue'))

\* C22: when the main thread delivers no result within the timeout of the
\* dispatch, the wait of the worker ends, the tool call is recorded as
\* failed with the timed-out error as its result, and the loop goes on with
\* the next call of the turn or, after the last call, with the next turn
\* (or ends with the notice when that was the last turn); the step emits no
\* error_occurred.
C22_DispatchTimeoutGoesOn ==
  [][WaitTimedOut =>
       LET tc == w_tool_calls[tc_idx]
           n == Len(tool_result_messages')
       IN /\ n = Len(tool_result_messages) + 1
          /\ ResultId(w_api_style, tool_result_messages'[n]) = tc.id
          /\ ResultContent(w_api_style, tool_result_messages'[n])
               = <<"Error: ">> \o TimedOutError
          /\ IF tc_idx < Len(w_tool_calls) THEN wpc' = "dispatch"
             ELSE IF LoopContinues(turn + 1) THEN wpc' = "stream"
             ELSE wpc' = "finished" /\ Len(responses') = 1
          /\ \A k \in 1..Len(NewSignals) : NewSignals[k].sig # "error_occurred"
          /\ IsPrefix(main_queue, main_queue')
     ]_vars

\* the wait for the first tool call timed out, the call was recorded with
\* the timed-out error, and the loop has streamed its next turn while the
\* request of the call is still queued for the main thread
C22_Witness ==
  /\ Len(stream_log) >= 2
  /\ Len(_tool_results) >= 1
  /\ _tool_results[1].results[1].content = <<"Error: ">> \o TimedOutError
  /\ main_queue # <<>>
  /\ Head(main_queue).sig = "tool_exec_requested"

Streaming == {w \in 1..Len(threads) : threads[w] = "streaming"}

\* the thread of the latest worker has not ended
WorkerRunning == _worker # 0 /\ threads[_worker] \in {"streaming", "emitted"}

Handled == srv_msg # None /\ srv_pc \in {"reading", "ended", "raised"}

\* one schema entry for every registered tool
SchemaOf(tools) == DOMAIN tools

\* C25: a tools/list request with id i yields a success response with id i
\* whose result lists one schema entry for every registered tool.
C25_ToolsListAnswered ==
  (Handled /\ srv_msg.kind = "object" /\ srv_msg.method = "tools/list"
     /\ srv_msg.id # NoId)
  => srv_out = <<make_response(srv_msg.id, [tools |-> SchemaOf(_tools)])>>

\* the handler raised an exception for the message, an object
HandlerRaised ==
  /\ Handled
  /\ srv_msg.kind = "object"
  /\ _handle(_tools, srv_msg).how = "raise"
  /\ _handle(_tools, srv_msg).value.class \in ExceptionClasses

C27_LoopEndsAtEof == srv_pc \in {"created", "reading", "handling", "ended"}

\* C28: for a message without id, whatever its method, the server writes
\* no line; for every input line it writes at most one line.
C28_NotificationsUnanswered ==
  /\ Len(srv_out) <= 1
  /\ (Handled /\ srv_msg.kind = "object" /\ srv_msg.id = NoId)
       => srv_out = <<>>

(***************************************************************************)
(* The tools of the MCP servers in the registry                            *)
(***************************************************************************)
\* definition d was made for tool t of client k
DefinitionFor(d, k, t) ==
  /\ d.name = namespaced(_clients[k].name, t)
  /\ \A kwargs \in {"args"} :
       HandlerCall(d.handler, kwargs)
         = [client |-> k, name |-> t, arguments |-> kwargs]

FollowsConvention(name) ==
  \E k \in 1..Len(_clients) :
    /\ Len(name) >= Len(_clients[k].name) + 2
    /\ SubSeq(name, 1, Len(_clients[k].name) + 2)
         = _clients[k].name \o Separator

\* C30: is_mcp_tool(n) is true for every name n under which
\* register_tools_into registered a tool, and false for every name that
\* does not follow the "<server>__<tool>" convention.
C30_RecognizesRegistered ==
  /\ \A j \in 1..Len(reg_log) : is_mcp_tool(_clients, reg_log[j].name)
  /\ mcp_query.asked /\ ~FollowsConvention(mcp_query.name)
       => mcp_query.answer = is_mcp_tool(_clients, mcp_query.name)
          /\ ~mcp_query.answer

\* C31: namespacing keeps names from colliding: two distinct (server, tool)
\* pairs are never registered under the same name, and registering the
\* tools of the servers never replaces a built-in tool of the registry.
C31_NamesNeverCollide ==
  mpc = "registered" =>
    /\ \A i \in 1..Len(reg_log) : \A j \in 1..Len(reg_log) :
         reg_log[i].handler # reg_log[j].handler
           => reg_log[i].name # reg_log[j].name
    /\ \A n \in BuiltinNames \cap DOMAIN _tools :
         _tools[n] = BuiltinDefinition(n)

(***************************************************************************)
(* Undo transactions                                                       *)
(***************************************************************************)
\* the invocation ran its operation on an active document and has returned
ReturnedWithDocument == upc = "returned" /\ inv.doc /\ inv.run

EventsOfType(type) == SelectSeq(yielded, LAMBDA ev : ev.type = type)

\* the tool-use blocks whose start was yielded and whose end was not
OpenToolCalls == Len(EventsOfType("tool_call_start")) - Len(EventsOfType("tool_call_end"))

\* the step is a pass of the Anthropic loop over a chunk of the given type
AnthropicStep(type) ==
  /\ dialect = "anthropic"
  /\ Len(a_chunks') = Len(a_chunks) + 1
  /\ a_chunks'[Len(a_chunks')].type = type

\* the events the step yields
YieldedByStep == SubSeq(yielded', Len(yielded) + 1, Len(yielded'))

\* what a pass of the Anthropic loop over a block-start or a block-stop
\* does
BlockStep ==
  /\ (AnthropicStep("content_block_start") /\ open_block'.type = "tool_use") =>
       /\ current_tool_id' = open_block'.id
       /\ current_tool_name' = open_block'.name
       /\ current_tool_json' = <<>>
  /\ (AnthropicStep("content_block_stop") /\ open_block.type = "tool_use") =>
       YieldedByStep =
         <<LLMStreamEvent("tool_call_end", <<>>,
                          LLMToolCall(open_block.id, open_block.name,
                                      ParseArguments(current_tool_json)),
                          <<>>)>>
  /\ (AnthropicStep("content_block_stop") /\ open_block.type = "text") =>
       YieldedByStep = <<>>

\* the tool-use blocks open in the events yielded, and in the generator
OneOpen ==
  dialect = "anthropic" =>
    /\ OpenToolCalls \in {0, 1}
    /\ (stream_pc = "streaming" => (OpenToolCalls = 1 <=> current_tool_name # ""))

\* C33: in the Anthropic stream with tools at most one tool-use block is
\* open at any time; its id, name and collected JSON are reset at each
\* tool_use block-start; exactly one tool_call_end, of the block that is
\* closed, is yielded at the block-stop of a tool_use block, and none at the
\* block-stop of a text block.
C33_OneOpenToolBlock == []OneOpen /\ [][BlockStep]_vars

\* a text block was closed, and after it a tool_use block whose arguments
\* came in two fragments
C33_Witness ==
  /\ dialect = "anthropic"
  /\ Len(a_chunks) = MaxEvents
  /\ a_chunks[Len(a_chunks)].type = "content_block_stop"
  /\ Len(EventsOfType("tool_call_end")) = 1
  /\ EventsOfType("tool_call_end")[1].tool_call.arguments = ParsedArgText
  /\ \E k \in 1..Len(a_chunks) :
       a_chunks[k].type = "content_block_start" /\ a_chunks[k].content_block.type = "text"

(***************************************************************************)
(* The end of a stream with tools                                          *)
(***************************************************************************)
\* C39: every stream_with_tools sequence that ends without raising, in
\* either dialect and however the provider stream ends (a terminal chunk,
\* the [DONE] sentinel, the end of the response), yields exactly one done
\* event, and that event is the last of the sequence.
C39_OneDoneLast ==
  stream_pc = "returned" =>
    /\ Len(EventsOfType("done")) = 1
    /\ yielded[Len(yielded)] = DoneEvent

\* an Anthropic stream was ended by message_stop after a tool call and a
\* text
C39_Witness ==
  /\ dialect = "anthropic"
  /\ stream_pc = "returned"
  /\ ended_by = "message_stop"
  /\ Len(EventsOfType("tool_call_end")) = 1
  /\ Len(yielded) >= 4

(***************************************************************************)
(* The result of a tool call                                               *)
(***************************************************************************)
\* the result texts the execution of the call with the id can give, and
\* the text of a timeout
ResultTextsOf(id) ==
  LET payload == ToolExecRequested(AgentToolCall(id)).payload
  IN {ResultText(ToolSucceeded(payload)), ResultText(ToolFailed(payload)),
      ResultText(ToolTimedOut)}

\* the ids of the calls dispatched so far
DispatchedIds == {dispatched[k].id : k \in 1..Len(dispatched)}

\* C34 as claimed: the result recorded against a tool call is the result
\* of executing that call, or the timeout error: a result that arrives
\* after the wait for its call timed out is never taken as the result of a
\* later call.
C34_ResultOfSameCall ==
  /\ \A k \in 1..Len(tool_result_messages) :
       ResultContent(w_api_style, tool_result_messages[k])
         \in ResultTextsOf(ResultId(w_api_style, tool_result_messages[k]))
  /\ \A t \in 1..Len(_tool_results) :
       \A k \in 1..Len(_tool_results[t].results) :
         _tool_results[t].results[k].content
           \in ResultTextsOf(_tool_results[t].results[k].tool_call_id)

(***************************************************************************)
(* The resubmissions after failed code                                     *)
(***************************************************************************)
\* C35 as claimed: between two messages typed by the user, the number of
\* automatic resubmissions to the LLM that failed code execution in Act
\* mode triggers never exceeds max_retries, whatever mix of succeeding and
\* failing code blocks the responses contain.
C35_ResubmissionsBounded == resubmitted <= max_retries

(***************************************************************************)
(* The text of a tool-using run in the history                             *)
(***************************************************************************)
\* the contents of the assistant messages of a list, concatenated in order
RECURSIVE AssistantText(_)
AssistantText(ms) ==
  IF ms = <<>> THEN <<>>
  ELSE (IF Head(ms).role = "assistant" THEN Head(ms).content ELSE <<>>)
         \o AssistantText(Tail(ms))

\* the step is _on_response_finished for a run that used tools
ToolRunFinished ==
  /\ main_queue # <<>>
  /\ Head(main_queue).sig = "response_finished"
  /\ main_queue' = Tail(main_queue)
  /\ _tool_results # <<>>

\* C36 as claimed: when a tool-using run finishes, the contents of the
\* assistant messages it appends to the history, concatenated in order, are
\* the full response text that was streamed: no text of a turn is lost and
\* none is stored twice, also when the final turn produced no text.
C36_HistoryHasResponseOnce ==
  [][ToolRunFinished =>
        AssistantText(SubSeq(messages', Len(messages) + 1, Len(messages')))
          = Head(main_queue).payload]_vars

(***************************************************************************)
(* The budget of get_messages_for_api                                      *)
(***************************************************************************)
\* the messages of the conversation the answer was made of
Selection == SubSeq(messages, Cut + 1, Len(messages))

\* C37: the total content length of the messages get_messages_for_api
\* selects never exceeds max_chars, except when the selection is only the
\* most recent message or only the most recent tool group.
C37_WithinBudget ==
  (api_called /\ messages # <<>>) =>
    /\ AnswerIsSuffix
    /\ \/ SumChars(Selection) <= api_args.max_chars
       \/ Selection = <<messages[Len(messages)]>>
       \/ /\ messages[Len(messages)].role = "tool_result"
          /\ Selection = ToolGroup(messages, Len(messages))

\* older messages were cut, and the two or more messages selected fill the
\* budget
C37_Witness ==
  /\ api_called
  /\ Cut >= 1
  /\ Len(Selection) >= 2
  /\ SumChars(Selection) = api_args.max_chars
  /\ Len(messages[Cut].content) >= 1

(***************************************************************************)
(* The transport of a failed connection attempt                            *)
(***************************************************************************)
\* C38 as claimed: a connection attempt that fails (an error response to
\* initialize, a request that times out, an exception while the tools are
\* listed) leaves no running transport behind: the subprocess and the
\* reader thread started for it are stopped, so that every live transport
\* belongs to a client the manager holds.
C38_FailedAttemptStopsTransport ==
  (LastAttemptEnded /\ ~attempts[Len(attempts)].kept) =>
    /\ process # "alive"
    /\ rpc = "ended" \/ process = "exited"

(***************************************************************************)
(* The terminal signal of a run of the worker                              *)
(***************************************************************************)
\* the streams of the run that raised: each made run emit error_occurred
FailedStreams == {k \in 1..Len(stream_log) : stream_log[k].failed}

\* the terminal signals the worker has emitted: response_finished and
\* error_occurred
TerminalSignals == Len(responses) + Cardinality(FailedStreams)

\* a run has emitted no terminal signal before its end and one at its end
OneTerminalSignal ==
  /\ wpc # "finished" => TerminalSignals = 0
  /\ wpc = "finished" =>
       /\ TerminalSignals = 1
       /\ Len(responses) = 1 <=> FailedStreams = {}

\* after its terminal signal the worker streams nothing, requests no tool
\* and emits nothing: the queue of the main thread only shrinks
SilentAfterEnd ==
  wpc = "finished" =>
    /\ wpc' = "finished"
    /\ stream_log' = stream_log
    /\ dispatched' = dispatched
    /\ responses' = responses
    /\ _full_response' = _full_response
    /\ main_queue' = main_queue \/ main_queue' = Tail(main_queue)

\* C40: every run of the LLM worker ends with exactly one terminal signal,
\* response_finished once or error_occurred once, never both and never
\* neither, and no token or tool signal is emitted after it.
C40_OneTerminalSignal == []OneTerminalSignal /\ [][SilentAfterEnd]_vars

\* a run ended with error_occurred: its second stream raised, after a turn
\* with a tool call
C40_Witness ==
  /\ wpc = "finished"
  /\ Len(stream_log) = 2
  /\ stream_log[2].failed
  /\ dispatched # <<>>
  /\ responses = <<>>

====
